---- MODULE Spec2Model ----
(***************************************************************************)
(* State-machine model of the OAuth authorization layer of clawdchat-mcp:  *)
(* the Token Store (storage.py), the Authorization Server Provider and the *)
(* login / agent-selection web flow (auth_provider.py) and the stdio       *)
(* local-callback auth manager (stdio_auth.py).                            *)
(*                                                                         *)
(* Three specifications share the variables:                               *)
(*   Spec      - Token Store + provider token operations                   *)
(*   FlowSpec  - authorize, login callbacks, agent selection and           *)
(*               authorization completion, one step per suspension point   *)
(*   StdioSpec - the stdio auth manager and its local listener             *)
(***************************************************************************)
EXTENDS Integers, Sequences, FiniteSets, TLC

(* ---------------------------------------------------------------- bounds *)
\* values generate_token() may return in one run
MaxTok == 4
\* values generate_code() may return in one run
MaxCodes == 1
\* how many times the wall clock is advanced in one run
MaxAdvances == 2
\* clock ticks per second: time.time() is a float, int(time.time()) truncates
Resolution == 2
\* HTTP handler invocations (FlowSpec) suspended at the same time
MaxRequests == 2
\* authorize() calls (FlowSpec) in one run
MaxLogins == 1
\* switch_agent calls (SwitchSpec) suspended at the same time
MaxSwitchCalls == 1
\* authorization codes one run of FlowSpec may issue
MaxFlowCodes == 2

(* ----------------------------------------------------- program constants *)
ACCESS_TOKEN_EXPIRY == 3600
REFRESH_TOKEN_EXPIRY == 604800
AUTH_CODE_EXPIRY == 300
PENDING_LOGIN_TTL == 600

(* ------------------------------------------------------------ input sets *)
None == "None"
ClientIds == {"c1", "c2"}
Agents == {"A", "B"}
AgentName(a) == IF a = "A" THEN "Agent A" ELSE "Agent B"
\* an API key is <<agent, generation>>; the empty tuple is "no key" (falsy)
NoKey == <<>>
ScopeChoices == {{"agent", "read"}}
Resources == {None, "https://mcp/res"}
Jwts == {"jwt1"}
\* token and code values: 1.. are the values drawn so far, in order; 0 stands for
\* any value that is never generated (an unknown token presented by a caller)
TokIds == 0..MaxTok
CodeIds == 0..MaxCodes
RedirectUriOf(c) == IF c = "c1" THEN "https://client/cb" ELSE "https://other/cb"
CodeChallenge == "xyz"

VARIABLES
    now,             \* wall clock, in ticks of 1/Resolution second
    advances,        \* number of clock advances so far
    nextTok,         \* number of generate_token() draws so far
    nextCode,        \* number of generate_code() draws so far
    pending_logins,  \* TokenStore.pending_logins: the keys (internal states) in the dict
    pendingObj,      \* the PendingLogin objects themselves, by internal state
    auth_codes,      \* TokenStore.auth_codes
    access_tokens,   \* TokenStore.access_tokens
    refresh_tokens,  \* TokenStore.refresh_tokens
    disk,            \* TOKENS_FILE: [access_tokens, refresh_tokens]
    clients,         \* TokenStore.clients
    clients_disk,    \* CLIENTS_FILE
    stored_key,      \* backend identity: the stored API key of each agent
    requests,        \* HTTP handler invocations suspended on the backend
    attempts,        \* history of each authorize() call, by internal state: the state
                     \* parameter it was given and the codes issued for it so far
    mgr,             \* the StdioAuthManager instance (stdio mode)
    reset_log,       \* history: the reset-key calls made to the backend
    ret              \* what the last call returned: a provider / store call's result,
                     \* or the response of the HTTP handler that has just finished

vars == <<now, advances, nextTok, nextCode, pending_logins, pendingObj, auth_codes,
          access_tokens, refresh_tokens, disk, clients, clients_disk, stored_key,
          requests, attempts, mgr, reset_log, ret>>

(* --------------------------------------------------------------- helpers *)
Put(f, k, v) == [x \in DOMAIN f \cup {k} |-> IF x = k THEN v ELSE f[x]]
Drop(f, k) == [x \in DOMAIN f \ {k} |-> f[x]]
Keep(f, S) == [x \in S |-> f[x]]
Empty == [x \in {} |-> 0]

\* seconds -> ticks
Secs(s) == s * Resolution
\* int(time.time()): the clock truncated to whole seconds (kept in ticks)
IntTime(t) == (t \div Resolution) * Resolution

\* what the last call answered: the operation, its argument and its outcome
\* ("found" or None for a lookup, "ok" or the OAuth error identifier for an
\* exchange, the response for an HTTP handler, whose argument is the request);
\* NoRet after an operation that returns nothing
NoRet == [op |-> "none", arg |-> 0, result |-> None]
Ret(op, arg, result) == [op |-> op, arg |-> arg, result |-> result]

(* ------------------------------------------------------ TokenStore (pure) *)
\* storage.py get_auth_code: `data.expires_at < time.time()`
auth_code_expired(d, t) == d.expires_at < t

get_auth_code_result(ac, code, t) ==
    IF code \in DOMAIN ac /\ ~auth_code_expired(ac[code], t) THEN <<ac[code]>> ELSE <<>>

get_auth_code_store(ac, code, t) ==
    IF code \in DOMAIN ac /\ auth_code_expired(ac[code], t) THEN Drop(ac, code) ELSE ac

consume_auth_code_result(ac, code) ==
    IF code \in DOMAIN ac THEN <<ac[code]>> ELSE <<>>

consume_auth_code_keep(ac, code) == ac

consume_auth_code_store(ac, code) == Drop(ac, code)

token_expired_unchecked(d, t) == FALSE

\* `data.expires_at and data.expires_at < time.time()`
token_expired(d, t) == d.expires_at # 0 /\ d.expires_at < t

get_access_token_result(tbl, tok, t) ==
    IF tok \in DOMAIN tbl /\ ~token_expired(tbl[tok], t) THEN <<tbl[tok]>> ELSE <<>>

\* a lookup that leaves an expired access token in the table
get_access_token_keeping(tbl, tok, t) == tbl

get_access_token_store(tbl, tok, t) ==
    IF tok \in DOMAIN tbl /\ token_expired(tbl[tok], t) THEN Drop(tbl, tok) ELSE tbl

get_refresh_token_result(tbl, tok, t) ==
    IF tok \in DOMAIN tbl /\ token_expired(tbl[tok], t) THEN <<>>
    ELSE IF tok \in DOMAIN tbl THEN <<tbl[tok]>> ELSE <<>>

get_refresh_token_store(tbl, tok, t) ==
    IF tok \in DOMAIN tbl /\ token_expired(tbl[tok], t) THEN Drop(tbl, tok) ELSE tbl

revoke_refresh_token_keep(tbl, tok) == tbl

revoke_refresh_token_store(tbl, tok) == Drop(tbl, tok)

\* a revocation that takes every token of the table with it
revoke_access_token_clearing(tbl, tok) == IF tok \in DOMAIN tbl THEN Empty ELSE tbl

revoke_access_token_store(tbl, tok) == Drop(tbl, tok)

\* The JSON documents.  asdict + json.dumps write a dataclass as an object:
\* a list field (a set here) becomes an array, None becomes null, strings and
\* numbers are written as they are; json.loads + the dataclass constructor
\* read it back.
ListFields == {"scopes", "redirect_uris", "grant_types", "response_types"}
OptionalFields == {"resource", "client_secret", "client_name", "scope"}
JsonNull == "null"
JsonArray(S) == CHOOSE q \in [1..Cardinality(S) -> S] : {q[i] : i \in 1..Cardinality(S)} = S
ArrayItems(q) == {q[i] : i \in DOMAIN q}

asdict_json(d) ==
    [f \in DOMAIN d |->
        IF f \in ListFields THEN JsonArray(d[f])
        ELSE IF f \in OptionalFields /\ d[f] = None THEN JsonNull
        ELSE d[f]]

\* a reader that takes null for a string
from_json_keep_null(j) ==
    [f \in DOMAIN j |-> IF f \in ListFields THEN ArrayItems(j[f]) ELSE j[f]]

from_json(j) ==
    [f \in DOMAIN j |->
        IF f \in ListFields THEN ArrayItems(j[f])
        ELSE IF f \in OptionalFields /\ j[f] = JsonNull THEN None
        ELSE j[f]]

SavedTable(tbl) == [k \in DOMAIN tbl |-> asdict_json(tbl[k])]

\* _save_tokens: the whole of both tables is written
SavedTokens(at, rt) == [access_tokens |-> SavedTable(at), refresh_tokens |-> SavedTable(rt)]

\* A document that is not there, or whose text json.loads rejects (or that is
\* not an object of objects), is written as the document with the single key
\* "<file>"; every save replaces the whole document.
FileLost(how) == [x \in {"<file>"} |-> how]
Readable(doc) == "<file>" \notin DOMAIN doc

\* the dataclass constructors called with **v: every field without a default
\* must be there and no unknown one may be
TokenRequired ==
    {"token", "client_id", "scopes", "expires_at", "agent_api_key", "agent_id",
     "agent_name", "user_jwt"}
TokenDefaulted == {"resource"}
ClientRequired == {"client_id", "client_secret", "redirect_uris"}
ClientDefaulted ==
    {"client_name", "grant_types", "response_types", "token_endpoint_auth_method", "scope"}
Constructible(j, required, defaulted) ==
    required \subseteq DOMAIN j /\ DOMAIN j \subseteq required \cup defaulted

\* the entries a loading loop reaches: those written before the first entry
\* whose constructor raises (the exception ends the loop and the whole load)
ReachedInt(doc, required, defaulted) ==
    {k \in DOMAIN doc :
        \A b \in DOMAIN doc : b <= k => Constructible(doc[b], required, defaulted)}
LoopRaises(doc, required, defaulted) ==
    \E k \in DOMAIN doc : ~Constructible(doc[k], required, defaulted)

\* _load_tokens, one of its two loops: every entry reached is rebuilt from its
\* object; those whose expires_at is in the past are skipped
LoadTable(doc, defaulted, t) ==
    LET tbl == [k \in ReachedInt(doc, TokenRequired, defaulted) |-> from_json(doc[k])]
    IN  Keep(tbl, {k \in DOMAIN tbl : ~token_expired(tbl[k], t)})

\* _load_tokens: nothing for a missing or unreadable file; the refresh loop
\* is not reached when the access loop raises
LoadTokens(d, t) ==
    IF ~Readable(d) THEN [access_tokens |-> Empty, refresh_tokens |-> Empty]
    ELSE [access_tokens |-> LoadTable(d.access_tokens, TokenDefaulted, t),
          refresh_tokens |-> IF LoopRaises(d.access_tokens, TokenRequired, TokenDefaulted)
                             THEN Empty
                             ELSE LoadTable(d.refresh_tokens, {}, t)]

\* _save_clients / _load_clients: no entry is skipped
SavedClients(tbl) == SavedTable(tbl)

\* a store that starts without reading CLIENTS_FILE
LoadNoClients(doc) == Empty

\* the order of the entries in the client document: the order of registration
\* (c1 registers before c2)
ClientRank(c) == IF c = "c1" THEN 1 ELSE 2

LoadClients(doc) ==
    IF ~Readable(doc) THEN Empty
    ELSE [k \in {c \in DOMAIN doc :
                    \A b \in DOMAIN doc :
                        ClientRank(b) <= ClientRank(c)
                            => Constructible(doc[b], ClientRequired, ClientDefaulted)}
             |-> from_json(doc[k])]

(* ----------------------------------------------------------- the records *)
AuthCodeData(code, pl, api_key, agent_id, agent_name, t) ==
    [code |-> code,
     client_id |-> pl.client_id,
     redirect_uri |-> pl.redirect_uri,
     redirect_uri_provided_explicitly |-> pl.redirect_uri_provided_explicitly,
     code_challenge |-> pl.code_challenge,
     scopes |-> pl.scopes,
     expires_at |-> t + Secs(AUTH_CODE_EXPIRY),
     agent_api_key |-> api_key,
     agent_id |-> agent_id,
     agent_name |-> agent_name,
     user_jwt |-> pl.user_jwt,
     resource |-> pl.resource]

\* Python `x or d`: None and the empty string are falsy
OrDefault(x, d) == IF x = None \/ x = "" THEN d ELSE x

\* the PendingLogin built by authorize()
PendingLogin(state, oauth_state, client, redirect_uri, explicit, scopes, resource, t) ==
    [state |-> state,
     oauth_state |-> OrDefault(oauth_state, ""),
     client_id |-> client,
     redirect_uri |-> redirect_uri,
     redirect_uri_provided_explicitly |-> explicit,
     code_challenge |-> CodeChallenge,
     scopes |-> IF scopes = {} THEN {"agent"} ELSE scopes,
     resource |-> resource,
     user_jwt |-> None,
     created_at |-> t]

CodeAccessTokenWrongAgent(tok, client, cd, t) ==
    [token |-> tok, client_id |-> client, scopes |-> cd.scopes,
     expires_at |-> IntTime(t) + Secs(ACCESS_TOKEN_EXPIRY),
     agent_api_key |-> cd.agent_api_key, agent_id |-> cd.client_id,
     agent_name |-> cd.agent_name, user_jwt |-> cd.user_jwt,
     resource |-> cd.resource]

\* exchange_authorization_code, lines 159-169
CodeAccessToken(tok, client, cd, t) ==
    [token |-> tok, client_id |-> client, scopes |-> cd.scopes,
     expires_at |-> IntTime(t) + Secs(ACCESS_TOKEN_EXPIRY),
     agent_api_key |-> cd.agent_api_key, agent_id |-> cd.agent_id,
     agent_name |-> cd.agent_name, user_jwt |-> cd.user_jwt,
     resource |-> cd.resource]

\* exchange_authorization_code, lines 172-181
CodeRefreshToken(tok, client, cd, t) ==
    [token |-> tok, client_id |-> client, scopes |-> cd.scopes,
     expires_at |-> IntTime(t) + Secs(REFRESH_TOKEN_EXPIRY),
     agent_api_key |-> cd.agent_api_key, agent_id |-> cd.agent_id,
     agent_name |-> cd.agent_name, user_jwt |-> cd.user_jwt]

\* exchange_refresh_token, line 225: `scopes if scopes else old_data.scopes`
UseScopes(scopes, old) == IF scopes # {} THEN scopes ELSE old.scopes

\* exchange_refresh_token, lines 227-236 (no resource is passed: it defaults to None)
RefreshedAccessToken(tok, client, old, scopes, t) ==
    [token |-> tok, client_id |-> client, scopes |-> UseScopes(scopes, old),
     expires_at |-> IntTime(t) + Secs(ACCESS_TOKEN_EXPIRY),
     agent_api_key |-> old.agent_api_key, agent_id |-> old.agent_id,
     agent_name |-> old.agent_name, user_jwt |-> old.user_jwt,
     resource |-> None]

\* exchange_refresh_token, lines 238-247
RefreshedRefreshToken(tok, client, old, scopes, t) ==
    [token |-> tok, client_id |-> client, scopes |-> UseScopes(scopes, old),
     expires_at |-> IntTime(t) + Secs(REFRESH_TOKEN_EXPIRY),
     agent_api_key |-> old.agent_api_key, agent_id |-> old.agent_id,
     agent_name |-> old.agent_name, user_jwt |-> old.user_jwt]

\* backend identity at start: agent A has a stored key, agent B (registered
\* early) has none
InitialKeys == [a \in Agents |-> IF a = "A" THEN <<"A", 0>> ELSE NoKey]

\* StdioAuthManager.__init__
NewManager ==
    [jwt |-> "", api_key |-> NoKey, agent_id |-> "", agent_name |-> "", agents |-> <<>>,
     server |-> FALSE, auth_complete |-> FALSE, error |-> ""]

stdioVars == <<mgr, reset_log>>
clientVars == <<clients, clients_disk>>

(* ------------------------------------------------------------------ Init *)
Init ==
    /\ now = 0
    /\ advances = 0
    /\ nextTok = 0
    /\ nextCode = 0
    /\ pending_logins = {}
    /\ pendingObj = Empty
    /\ auth_codes = Empty
    /\ access_tokens = Empty
    /\ refresh_tokens = Empty
    /\ disk = SavedTokens(Empty, Empty)
    /\ clients = Empty
    /\ clients_disk = SavedClients(Empty)
    /\ stored_key = InitialKeys
    /\ requests = Empty
    /\ attempts = Empty
    /\ mgr = NewManager
    /\ reset_log = {}
    /\ ret = NoRet

(* ------------------------------------------------------------ the clock *)
\* the clock moves by one tick or by a whole TTL
TokenTimeSteps == {1, Secs(ACCESS_TOKEN_EXPIRY)}

Advance(d) ==
    /\ advances < MaxAdvances
    /\ now' = now + d
    /\ advances' = advances + 1
    /\ ret' = NoRet
    /\ UNCHANGED <<nextTok, nextCode, pending_logins, pendingObj, auth_codes,
                   access_tokens, refresh_tokens, disk, stored_key, requests,
                   attempts, mgr, reset_log>>
    /\ UNCHANGED clientVars

\* generate_token() / generate_code(): secrets.token_urlsafe(32), a value never
\* returned before; i is the position of the draw within the calling operation
FreshToken(n, i) == n + i

\* the logins that lead to a code in Spec: who asked, for which agent and resource
CodeProfiles ==
    {[client |-> "c1", agent |-> "A", resource |-> "https://mcp/res"],
     [client |-> "c2", agent |-> "B", resource |-> None]}

flowVars == <<pending_logins, pendingObj, stored_key, requests, attempts>>

(* --------------------------------------- provider: authorization codes *)
\* The tail of _complete_authorization (from "Generate authorization code"):
\* a code is stored for a PendingLogin whose login is done, bound to the key
\* obtained for the chosen agent.  In Spec the PendingLogin is an input; FlowSpec
\* runs the handlers that lead here.
IssueAuthCode(client, agent, gen, scopes, resource, jwt) ==
    /\ nextCode + 1 <= MaxCodes
    /\ LET code == FreshToken(nextCode, 1)
           pl == [PendingLogin(0, "s1", client, RedirectUriOf(client), TRUE, scopes,
                               resource, now) EXCEPT !.user_jwt = jwt]
       IN  auth_codes' = Put(auth_codes, code,
                             AuthCodeData(code, pl, <<agent, gen>>, agent, AgentName(agent), now))
    /\ nextCode' = nextCode + 1
    /\ ret' = NoRet
    /\ UNCHANGED <<now, advances, nextTok, access_tokens, refresh_tokens, disk>>
    /\ UNCHANGED flowVars
    /\ UNCHANGED stdioVars
    /\ UNCHANGED clientVars

LoadOwnedIgnoringClient(res, client) == res # <<>>

\* `if not data: return None; if data.client_id != client.client_id: return None`
LoadOwned(res, client) == res # <<>> /\ res[1].client_id = client

LoadAuthorizationCode(client, code) ==
    /\ LET res == get_auth_code_result(auth_codes, code, now)
       IN  ret' = IF LoadOwned(res, client)
                  THEN Ret("load_authorization_code", code, "found")
                  ELSE Ret("load_authorization_code", code, None)
    /\ auth_codes' = get_auth_code_store(auth_codes, code, now)
    /\ UNCHANGED <<now, advances, nextTok, nextCode, access_tokens, refresh_tokens, disk>>
    /\ UNCHANGED flowVars
    /\ UNCHANGED stdioVars
    /\ UNCHANGED clientVars

ExchangeAuthorizationCode(client, code) ==
    LET res == consume_auth_code_result(auth_codes, code)
        at == FreshToken(nextTok, 1)
        rt == FreshToken(nextTok, 2)
    IN  /\ auth_codes' = consume_auth_code_store(auth_codes, code)
        /\ IF res = <<>>
           THEN /\ ret' = Ret("exchange_authorization_code", code, "invalid_grant")
                /\ UNCHANGED <<nextTok, access_tokens, refresh_tokens, disk>>
           ELSE /\ nextTok + 2 <= MaxTok
                /\ nextTok' = nextTok + 2
                /\ access_tokens' = Put(access_tokens, at, CodeAccessToken(at, client, res[1], now))
                /\ refresh_tokens' = Put(refresh_tokens, rt, CodeRefreshToken(rt, client, res[1], now))
                /\ disk' = SavedTokens(access_tokens', refresh_tokens')
                /\ ret' = Ret("exchange_authorization_code", code, "ok")
        /\ UNCHANGED <<now, advances, nextCode>>
        /\ UNCHANGED flowVars
        /\ UNCHANGED stdioVars
        /\ UNCHANGED clientVars

(* ------------------------------------------- provider: refresh tokens *)
LoadRefreshToken(client, tok) ==
    /\ LET res == get_refresh_token_result(refresh_tokens, tok, now)
       IN  ret' = IF LoadOwned(res, client)
                  THEN Ret("load_refresh_token", tok, "found")
                  ELSE Ret("load_refresh_token", tok, None)
    /\ refresh_tokens' = get_refresh_token_store(refresh_tokens, tok, now)
    /\ IF refresh_tokens' # refresh_tokens
       THEN disk' = SavedTokens(access_tokens, refresh_tokens')
       ELSE UNCHANGED disk
    /\ UNCHANGED <<now, advances, nextTok, nextCode, auth_codes, access_tokens>>
    /\ UNCHANGED flowVars
    /\ UNCHANGED stdioVars
    /\ UNCHANGED clientVars

\* the scopes argument of a refresh: none, or narrower than the granted ones
ScopeArgs == {{}, {"agent"}}

ExchangeRefreshToken(client, tok, scopes) ==
    LET res == get_refresh_token_result(refresh_tokens, tok, now)
        afterGet == get_refresh_token_store(refresh_tokens, tok, now)
        afterRevoke == revoke_refresh_token_store(afterGet, tok)
        at == FreshToken(nextTok, 1)
        rt == FreshToken(nextTok, 2)
    IN  /\ IF res = <<>>
           THEN /\ ret' = Ret("exchange_refresh_token", tok, "invalid_grant")
                /\ refresh_tokens' = afterGet
                /\ IF afterGet # refresh_tokens
                   THEN disk' = SavedTokens(access_tokens, afterGet)
                   ELSE UNCHANGED disk
                /\ UNCHANGED <<nextTok, access_tokens>>
           ELSE /\ nextTok + 2 <= MaxTok
                /\ nextTok' = nextTok + 2
                /\ access_tokens' =
                       Put(access_tokens, at, RefreshedAccessToken(at, client, res[1], scopes, now))
                /\ refresh_tokens' =
                       Put(afterRevoke, rt, RefreshedRefreshToken(rt, client, res[1], scopes, now))
                /\ disk' = SavedTokens(access_tokens', refresh_tokens')
                /\ ret' = Ret("exchange_refresh_token", tok, "ok")
        /\ UNCHANGED <<now, advances, nextCode, auth_codes>>
        /\ UNCHANGED flowVars
        /\ UNCHANGED stdioVars
        /\ UNCHANGED clientVars

(* --------------------------------------------- provider: access tokens *)
LoadAccessToken(tok) ==
    /\ LET res == get_access_token_result(access_tokens, tok, now)
       IN  ret' = IF res # <<>>
                  THEN Ret("load_access_token", tok, "found")
                  ELSE Ret("load_access_token", tok, None)
    /\ access_tokens' = get_access_token_store(access_tokens, tok, now)
    /\ IF access_tokens' # access_tokens
       THEN disk' = SavedTokens(access_tokens', refresh_tokens)
       ELSE UNCHANGED disk
    /\ UNCHANGED <<now, advances, nextTok, nextCode, auth_codes, refresh_tokens>>
    /\ UNCHANGED flowVars
    /\ UNCHANGED stdioVars
    /\ UNCHANGED clientVars

\* revoke_token: isinstance dispatch on the token object handed in
RevokeToken(kind, tok) ==
    /\ IF kind = "access"
       THEN /\ access_tokens' = revoke_access_token_store(access_tokens, tok)
            /\ UNCHANGED refresh_tokens
       ELSE /\ refresh_tokens' = revoke_refresh_token_store(refresh_tokens, tok)
            /\ UNCHANGED access_tokens
    /\ IF access_tokens' # access_tokens \/ refresh_tokens' # refresh_tokens
       THEN disk' = SavedTokens(access_tokens', refresh_tokens')
       ELSE UNCHANGED disk
    /\ ret' = Ret("revoke_token", [kind |-> kind, token |-> tok], None)
    /\ UNCHANGED <<now, advances, nextTok, nextCode, auth_codes>>
    /\ UNCHANGED flowVars
    /\ UNCHANGED stdioVars
    /\ UNCHANGED clientVars

(* ------------------------------------------------- store: housekeeping *)
CleanupExpired ==
    /\ auth_codes' = Keep(auth_codes, {k \in DOMAIN auth_codes : auth_codes[k].expires_at > now})
    /\ access_tokens' = Keep(access_tokens,
           {k \in DOMAIN access_tokens :
               access_tokens[k].expires_at = 0 \/ access_tokens[k].expires_at > now})
    /\ refresh_tokens' = Keep(refresh_tokens,
           {k \in DOMAIN refresh_tokens :
               refresh_tokens[k].expires_at = 0 \/ refresh_tokens[k].expires_at > now})
    /\ pending_logins' =
           {k \in pending_logins : now - pendingObj[k].created_at < Secs(PENDING_LOGIN_TTL)}
    /\ IF Cardinality(DOMAIN access_tokens') # Cardinality(DOMAIN access_tokens)
          \/ Cardinality(DOMAIN refresh_tokens') # Cardinality(DOMAIN refresh_tokens)
       THEN disk' = SavedTokens(access_tokens', refresh_tokens')
       ELSE UNCHANGED disk
    /\ ret' = NoRet
    /\ UNCHANGED <<now, advances, nextTok, nextCode, pendingObj, stored_key, requests,
                   attempts, mgr, reset_log>>
    /\ UNCHANGED clientVars

\* process restart: a new TokenStore is built from the documents on disk; auth
\* codes, pending logins and running handlers are gone
Restart ==
    /\ access_tokens' = LoadTokens(disk, now).access_tokens
    /\ refresh_tokens' = LoadTokens(disk, now).refresh_tokens
    /\ auth_codes' = Empty
    /\ pending_logins' = {}
    /\ pendingObj' = Empty
    /\ requests' = Empty
    /\ ret' = Ret("restart", 0, None)
    /\ clients' = LoadClients(clients_disk)
    /\ UNCHANGED <<now, advances, nextTok, nextCode, disk, clients_disk, stored_key,
                   attempts, mgr, reset_log>>

\* what a caller can present: a value that was issued, or an unknown one
TokArgs == 0..nextTok
CodeArgs == 0..nextCode

Next ==
    \/ \E d \in TokenTimeSteps : Advance(d)
    \/ \E p \in CodeProfiles, s \in ScopeChoices, j \in Jwts :
           IssueAuthCode(p.client, p.agent, 0, s, p.resource, j)
    \/ \E c \in ClientIds, k \in CodeArgs : LoadAuthorizationCode(c, k)
    \/ \E c \in ClientIds, k \in CodeArgs : ExchangeAuthorizationCode(c, k)
    \/ \E c \in ClientIds, k \in TokArgs : LoadRefreshToken(c, k)
    \/ \E c \in ClientIds, k \in TokArgs, s \in ScopeArgs : ExchangeRefreshToken(c, k, s)
    \/ \E k \in TokArgs : LoadAccessToken(k)
    \/ \E kind \in {"access", "refresh"}, k \in TokArgs : RevokeToken(kind, k)
    \/ CleanupExpired
    \/ Restart

Spec == Init /\ [][Next]_vars

(***************************************************************************)
(* The login flow: authorize, the login / federated callbacks, agent        *)
(* selection and _complete_authorization.  A handler runs up to its next    *)
(* `await` on the backend in one step; the backend's answer is a later step *)
(* so that handlers of concurrent requests interleave.                      *)
(***************************************************************************)
tokenVars == <<access_tokens, refresh_tokens, disk>>

\* a pending login that is gone at the very end of its TTL
pending_login_expired_at_ttl(p, t) == (t - p.created_at) >= Secs(PENDING_LOGIN_TTL)

\* storage.py get_pending_login: `(time.time() - data.created_at) > 600`
pending_login_expired(p, t) == (t - p.created_at) > Secs(PENDING_LOGIN_TTL)

get_pending_login_result(pl, obj, state, t) ==
    IF state \in pl /\ ~pending_login_expired(obj[state], t) THEN <<state>> ELSE <<>>

\* a lookup that removes the PendingLogin it was asked for
get_pending_login_consuming(pl, obj, state, t) == pl \ {state}

get_pending_login_store(pl, obj, state, t) ==
    IF state \in pl /\ pending_login_expired(obj[state], t) THEN pl \ {state} ELSE pl

\* a store that forgets every pending login when one is consumed
consume_pending_login_all(pl, state) == {}

consume_pending_login_keep(pl, state) == pl

consume_pending_login_store(pl, state) == pl \ {state}

\* construct_redirect_uri: the query gets every parameter that is not None
construct_redirect_uri(uri, code, state) ==
    [uri |-> uri,
     query |-> [n \in {"code"} \cup (IF state = None THEN {} ELSE {"state"}) |->
                    IF n = "code" THEN code ELSE state]]

NoRedirect == [uri |-> "", query |-> Empty]

\* the internal state as it is written into URLs
StateString(state) == ToString(state)

\* _complete_authorization: `state=pending.oauth_state or None`
CompleteRedirect(pending, code) ==
    construct_redirect_uri(pending.redirect_uri, code, OrDefault(pending.oauth_state, None))

\* the responses of the handlers
NoResp == [status |-> 0, body |-> "none", redirect |-> NoRedirect]
ErrorResp(status) == [status |-> status, body |-> "error", redirect |-> NoRedirect]
\* an exception that no except clause of the handler catches leaves the handler
RaisedResp == [status |-> 0, body |-> "raised", redirect |-> NoRedirect]
NeedsResetResp == [status |-> 200, body |-> "needs_reset", redirect |-> NoRedirect]
\* a selection-page redirect that names no login
SelectAgentRespNoState(status, state) ==
    [status |-> status, body |-> "select_agent",
     redirect |-> [uri |-> "/auth/select-agent", query |-> Empty]]

\* the redirect to the selection page: `/auth/select-agent?state={state}` in the
\* JSON answer (200), under mcp_server_url in the RedirectResponse (302)
SelectAgentResp(status, state) ==
    [status |-> status, body |-> "select_agent",
     redirect |-> [uri |-> IF status = 302 THEN "https://mcp/auth/select-agent"
                                           ELSE "/auth/select-agent",
                   query |-> [n \in {"state"} |-> StateString(state)]]]
RedirectResp(r) == [status |-> 200, body |-> "redirect", redirect |-> r]

\* google_callback_handler re-wraps what _complete_authorization answered
GoogleWrap(kind, state, resp) ==
    IF kind # "google" THEN resp
    ELSE IF resp.body = "redirect" THEN resp
    ELSE IF resp.body = "needs_reset" THEN SelectAgentResp(302, state)
    ELSE ErrorResp(400)

\* one handler invocation: its arguments and where it is suspended
Request(kind, state, agent_id, confirm_reset, pc) ==
    [kind |-> kind, state |-> state, agent_id |-> agent_id,
     confirm_reset |-> confirm_reset, pc |-> pc, reset_calls |-> 0]

\* the slot a new invocation takes
FreeSlots == (1..MaxRequests) \ DOMAIN requests
NewSlot == CHOOSE i \in FreeSlots : \A j \in FreeSlots : i <= j

\* handler i returns resp: the invocation is over, its response is observed
Answer(i, resp) ==
    /\ requests' = Drop(requests, i)
    /\ ret' = Ret(requests[i].kind, requests[i], resp)

StateParams == {None, "", "s1"}
AgentLists == {<<>>, <<"A">>, <<"B">>, <<"A", "B">>}
FlowTimeSteps == {1, Secs(PENDING_LOGIN_TTL)}

\* authorize, for at most n authorization attempts
AuthorizeUpTo(n, client, state_param, scopes, resource) ==
    /\ Cardinality(DOMAIN attempts) < n
    /\ nextTok + 1 <= MaxTok
    /\ LET state == FreshToken(nextTok, 1)
       IN  /\ pending_logins' = pending_logins \cup {state}
           /\ pendingObj' = Put(pendingObj, state,
                  PendingLogin(state, state_param, client, RedirectUriOf(client), TRUE,
                               scopes, resource, now))
           /\ attempts' = Put(attempts, state, [state_param |-> state_param, codes |-> 0])
           /\ ret' = Ret("authorize", state, "login")
    /\ nextTok' = nextTok + 1
    /\ UNCHANGED <<now, advances, nextCode, auth_codes, stored_key, requests>>
    /\ UNCHANGED tokenVars
    /\ UNCHANGED stdioVars
    /\ UNCHANGED clientVars

Authorize(client, state_param, scopes, resource) ==
    AuthorizeUpTo(MaxLogins, client, state_param, scopes, resource)

\* GET /auth/login
LoginPage(state) ==
    /\ ret' = IF get_pending_login_result(pending_logins, pendingObj, state, now) # <<>>
              THEN Ret("login_page", state, "found")
              ELSE Ret("login_page", state, None)
    /\ pending_logins' = get_pending_login_store(pending_logins, pendingObj, state, now)
    /\ UNCHANGED <<now, advances, nextTok, nextCode, pendingObj, auth_codes, stored_key,
                   requests, attempts>>
    /\ UNCHANGED tokenVars
    /\ UNCHANGED stdioVars
    /\ UNCHANGED clientVars

\* a request that carries no state parameter (state = "")
NoState == 0 - 1
\* a handler that takes every request as complete
ParamNeverMissing(x, state) == FALSE

\* `if not phone or not state` / `if not code or not state` /
\* `if not state or not agent_id`
ParamMissing(x, state) == x = "" \/ state = NoState

\* login_callback_handler (kind "login") and google_callback_handler (kind
\* "google") up to the await of phone_login / google_api_login; cred is the
\* phone number or the Google code of the request
LoginCallback(kind, cred, state) ==
    /\ FreeSlots # {}
    /\ IF ParamMissing(cred, state)
       THEN /\ ret' = Ret(kind, Request(kind, state, None, FALSE, "start"), ErrorResp(400))
            /\ UNCHANGED <<requests, pending_logins>>
       ELSE IF get_pending_login_result(pending_logins, pendingObj, state, now) = <<>>
       THEN /\ ret' = Ret(kind, Request(kind, state, None, FALSE, "start"), ErrorResp(400))
            /\ UNCHANGED requests
            /\ pending_logins' = get_pending_login_store(pending_logins, pendingObj, state, now)
       ELSE /\ requests' = Put(requests, NewSlot,
                               Request(kind, state, None, FALSE, "await_login"))
            /\ ret' = NoRet
            /\ pending_logins' = get_pending_login_store(pending_logins, pendingObj, state, now)
    /\ UNCHANGED <<now, advances, nextTok, nextCode, pendingObj, auth_codes, stored_key,
                   attempts>>
    /\ UNCHANGED tokenVars
    /\ UNCHANGED stdioVars
    /\ UNCHANGED clientVars

\* the login call returns; on success the handler writes the JWT into the
\* PendingLogin object it holds and awaits get_my_agents
LoginReturns(i, outcome) ==
    /\ i \in DOMAIN requests
    /\ requests[i].pc = "await_login"
    /\ IF outcome = "ok"
       THEN /\ pendingObj' = [pendingObj EXCEPT ![requests[i].state].user_jwt = "jwt1"]
            /\ requests' = [requests EXCEPT ![i].pc = "await_agents"]
            /\ ret' = NoRet
       ELSE /\ Answer(i, ErrorResp(IF outcome = "exception" THEN 500 ELSE 400))
            /\ UNCHANGED pendingObj
    /\ UNCHANGED <<now, advances, nextTok, nextCode, pending_logins, auth_codes, stored_key,
                   attempts>>
    /\ UNCHANGED tokenVars
    /\ UNCHANGED stdioVars
    /\ UNCHANGED clientVars

\* get_my_agents returns: no agent is an error, one agent is selected
\* automatically, several send the browser to the selection page; only
\* ClawdChatAPIError is caught
AgentsReturn(i, outcome, agents) ==
    /\ i \in DOMAIN requests
    /\ requests[i].pc = "await_agents"
    /\ IF outcome = "exception"
       THEN Answer(i, RaisedResp)
       ELSE IF outcome = "api_error" \/ agents = <<>>
       THEN Answer(i, ErrorResp(400))
       ELSE IF Len(agents) = 1
       THEN /\ requests' = [requests EXCEPT ![i].pc = "await_creds",
                                            ![i].agent_id = agents[1]]
            /\ ret' = NoRet
       ELSE Answer(i, SelectAgentResp(IF requests[i].kind = "google" THEN 302 ELSE 200,
                                      requests[i].state))
    /\ UNCHANGED <<now, advances, nextTok, nextCode, pending_logins, pendingObj, auth_codes,
                   stored_key, attempts>>
    /\ UNCHANGED tokenVars
    /\ UNCHANGED stdioVars
    /\ UNCHANGED clientVars

\* a selection handler that does not ask for a session credential
SessionNeverMissing(pending) == FALSE

\* `not pending.user_jwt`
SessionMissing(pending) == pending.user_jwt = None

\* select_agent_callback_handler up to the await of get_agent_credentials
SelectAgentCallback(state, agent_id, confirm_reset) ==
    /\ FreeSlots # {}
    /\ IF ParamMissing(agent_id, state)
       THEN /\ ret' = Ret("select", Request("select", state, agent_id, confirm_reset, "start"),
                          ErrorResp(400))
            /\ UNCHANGED <<requests, pending_logins>>
       ELSE IF get_pending_login_result(pending_logins, pendingObj, state, now) = <<>>
               \/ SessionMissing(pendingObj[state])
       THEN /\ ret' = Ret("select", Request("select", state, agent_id, confirm_reset, "start"),
                          ErrorResp(400))
            /\ UNCHANGED requests
            /\ pending_logins' = get_pending_login_store(pending_logins, pendingObj, state, now)
       ELSE /\ requests' = Put(requests, NewSlot,
                   Request("select", state, agent_id, confirm_reset, "await_creds"))
            /\ ret' = NoRet
            /\ pending_logins' = get_pending_login_store(pending_logins, pendingObj, state, now)
    /\ UNCHANGED <<now, advances, nextTok, nextCode, pendingObj, auth_codes, stored_key,
                   attempts>>
    /\ UNCHANGED tokenVars
    /\ UNCHANGED stdioVars
    /\ UNCHANGED clientVars

\* the tail of _complete_authorization: store the code, consume the pending
\* login, answer with the redirect to the client
Complete(i, api_key) ==
    LET r == requests[i]
        pending == pendingObj[r.state]
        code == FreshToken(nextCode, 1)
    IN  /\ nextCode + 1 <= MaxFlowCodes
        /\ nextCode' = nextCode + 1
        /\ auth_codes' = Put(auth_codes, code,
               AuthCodeData(code, pending, api_key, r.agent_id, AgentName(r.agent_id), now))
        /\ pending_logins' = consume_pending_login_store(pending_logins, r.state)
        /\ attempts' = [attempts EXCEPT ![r.state].codes = @ + 1]
        /\ Answer(i, RedirectResp(CompleteRedirect(pending, code)))

\* a reset-key call as the backend sees it: for which agent, from which flow,
\* and whether the caller of the flow had supplied a confirmation
ResetCall(agent_id, via, confirmed) ==
    [agent_id |-> agent_id, via |-> via, confirmed |-> confirmed]

\* the key the backend generates on a reset
ResetKey(agent_id, old) == <<agent_id, IF old = NoKey THEN 1 ELSE old[2] + 1>>

ConfirmIgnored(confirm_reset) == TRUE

\* `if not confirm_reset: return needs_reset`
ResetConfirmed(confirm_reset) == confirm_reset

\* get_agent_credentials returns (2xx only for an agent the backend knows):
\* with a key the authorization completes;
\* without one the handler answers needs_reset, or (confirmed) calls
\* reset_agent_key and awaits it
CredentialsReturn(i, outcome) ==
    /\ i \in DOMAIN requests
    /\ requests[i].pc = "await_creds"
    /\ outcome = "ok" => requests[i].agent_id \in Agents
    /\ LET r == requests[i]
           api_key == stored_key[r.agent_id]
       IN  IF outcome = "exception"
           THEN /\ Answer(i, RaisedResp)
                /\ UNCHANGED <<nextCode, auth_codes, pending_logins, attempts, reset_log>>
           ELSE IF outcome = "api_error"
           THEN /\ Answer(i, GoogleWrap(r.kind, r.state, ErrorResp(400)))
                /\ UNCHANGED <<nextCode, auth_codes, pending_logins, attempts, reset_log>>
           ELSE IF api_key # NoKey
           THEN Complete(i, api_key) /\ UNCHANGED reset_log
           ELSE IF ~ResetConfirmed(r.confirm_reset)
           THEN /\ Answer(i, GoogleWrap(r.kind, r.state, NeedsResetResp))
                /\ UNCHANGED <<nextCode, auth_codes, pending_logins, attempts, reset_log>>
           ELSE /\ requests' = [requests EXCEPT ![i].pc = "await_reset",
                                                ![i].reset_calls = @ + 1]
                /\ reset_log' = reset_log \cup {ResetCall(r.agent_id, r.kind, r.confirm_reset)}
                /\ ret' = NoRet
                /\ UNCHANGED <<nextCode, auth_codes, pending_logins, attempts>>
    /\ UNCHANGED <<now, advances, nextTok, pendingObj, stored_key, mgr>>
    /\ UNCHANGED tokenVars
    /\ UNCHANGED clientVars

\* reset_agent_key returns: the backend has stored a new key (ok), answered
\* without one (no_key), answered non-2xx (api_error) or the request itself
\* failed (exception)
ResetReturns(i, outcome) ==
    /\ i \in DOMAIN requests
    /\ requests[i].pc = "await_reset"
    /\ LET r == requests[i]
           api_key == ResetKey(r.agent_id, stored_key[r.agent_id])
       IN  IF outcome = "ok"
           THEN /\ stored_key' = [stored_key EXCEPT ![r.agent_id] = api_key]
                /\ Complete(i, api_key)
           ELSE IF outcome = "exception"
           THEN /\ Answer(i, RaisedResp)
                /\ UNCHANGED <<nextCode, auth_codes, pending_logins, stored_key, attempts>>
           ELSE /\ Answer(i, GoogleWrap(r.kind, r.state, ErrorResp(400)))
                /\ UNCHANGED <<nextCode, auth_codes, pending_logins, stored_key, attempts>>
    /\ UNCHANGED <<now, advances, nextTok, pendingObj>>
    /\ UNCHANGED tokenVars
    /\ UNCHANGED stdioVars
    /\ UNCHANGED clientVars

RequestIds == 1..MaxRequests

\* the parameters a browser can send: a phone number or Google code, or none;
\* a state that was issued, an unknown one, or none; an agent id, or none
CredParams == {"", "p"}
StateArgs == TokArgs \cup {NoState}
AgentParams == Agents \cup {""}
\* the requests sent: every complete one, and one for each way of leaving a
\* parameter out
LoginInputs ==
    {<<cred, st>> : cred \in CredParams, st \in TokArgs} \cup {<<"p", NoState>>}
SelectInputs ==
    {<<st, a, c>> : st \in TokArgs, a \in Agents, c \in BOOLEAN}
        \cup {<<st, "", FALSE>> : st \in TokArgs} \cup {<<NoState, "A", FALSE>>}

\* how a call to the backend ends: a 2xx answer, a non-2xx answer (raised as
\* ClawdChatAPIError), or an exception of the HTTP client (no answer at all)
BackendOutcomes == {"ok", "api_error", "exception"}

FlowNext ==
    \/ \E d \in FlowTimeSteps : Advance(d)
    \/ \E sp \in StateParams : Authorize("c1", sp, {}, None)
    \/ \E st \in TokArgs : LoginPage(st)
    \/ \E kind \in {"login", "google"}, in \in LoginInputs : LoginCallback(kind, in[1], in[2])
    \/ \E i \in RequestIds, o \in {"ok", "api_error", "exception", "no_token"} :
           LoginReturns(i, o)
    \/ \E i \in RequestIds, o \in BackendOutcomes, l \in AgentLists :
           AgentsReturn(i, o, IF o = "ok" THEN l ELSE <<>>)
    \/ \E in \in SelectInputs : SelectAgentCallback(in[1], in[2], in[3])
    \/ \E i \in RequestIds, o \in BackendOutcomes : CredentialsReturn(i, o)
    \/ \E i \in RequestIds, o \in BackendOutcomes \cup {"no_key"} : ResetReturns(i, o)
    \/ CleanupExpired

FlowSpec == Init /\ [][FlowNext]_vars

(***************************************************************************)
(* stdio mode: the StdioAuthManager and its local callback listener.  The   *)
(* listener's handlers and the manager's methods call the backend with      *)
(* blocking requests, so each runs to its end in one step.                  *)
(***************************************************************************)
is_authenticated(m) == m.api_key # NoKey

needs_agent_selection(m) == m.jwt # "" /\ m.api_key = NoKey /\ Len(m.agents) > 1

\* what a manager method leaves behind: the manager, the backend's keys, the
\* error it raised ("" if none) and the reset-key calls it made
Outcome(m, keys, raised, resets) ==
    [mgr |-> m, keys |-> keys, raised |-> raised, resets |-> resets]

\* _select_agent_sync: fetch the credentials; `if not api_key:` reset the key;
\* confirmed tells whether the caller of the flow had confirmed a reset (the
\* method has no such parameter and does not look at it)
select_agent_sync(m, keys, agent_id, agent_name, creds, reset, via, confirmed) ==
    IF creds # "ok" THEN Outcome(m, keys, "creds_failed", {})
    ELSE IF keys[agent_id] # NoKey
    THEN Outcome([m EXCEPT !.api_key = keys[agent_id], !.agent_id = agent_id,
                           !.agent_name = agent_name], keys, "", {})
    ELSE IF reset = "fail"
    THEN Outcome(m, keys, "reset_failed", {ResetCall(agent_id, via, confirmed)})
    ELSE IF reset = "no_key"
    THEN Outcome(m, keys, "no_api_key", {ResetCall(agent_id, via, confirmed)})
    ELSE LET api_key == ResetKey(agent_id, keys[agent_id])
         IN  Outcome([m EXCEPT !.api_key = api_key, !.agent_id = agent_id,
                               !.agent_name = agent_name],
                     [keys EXCEPT ![agent_id] = api_key], "",
                     {ResetCall(agent_id, via, confirmed)})

\* _do_auth_exchange: code -> JWT -> agent list -> automatic selection of a
\* single agent
do_auth_exchange(m, keys, token, list, agents, creds, reset) ==
    IF token = "fail" THEN Outcome(m, keys, "token_failed", {})
    ELSE IF token = "no_jwt" THEN Outcome([m EXCEPT !.jwt = ""], keys, "no_jwt", {})
    ELSE LET m1 == [m EXCEPT !.jwt = "jwt1"]
             m2 == [m1 EXCEPT !.agents = agents]
         IN  IF list # "ok" THEN Outcome(m1, keys, "agents_failed", {})
             ELSE IF agents = <<>> THEN Outcome(m2, keys, "no_agents", {})
             ELSE IF Len(agents) = 1
             THEN select_agent_sync(m2, keys, agents[1], AgentName(agents[1]),
                                    creds, reset, "callback", FALSE)
             ELSE Outcome(m2, keys, "", {})

InList(agents, agent_id) == \E k \in 1..Len(agents) : agents[k] = agent_id

\* a selection that does not look at the cached list
select_agent_unlisted(m, keys, agent_id, creds, reset, via, confirmed) ==
    select_agent_sync(m, keys, agent_id, AgentName(agent_id), creds, reset, via, confirmed)

\* select_agent: the agent must be in the cached list; every exception of
\* _select_agent_sync becomes an error result
select_agent(m, keys, agent_id, creds, reset, via, confirmed) ==
    IF ~InList(m.agents, agent_id) THEN Outcome(m, keys, "not_in_list", {})
    ELSE select_agent_sync(m, keys, agent_id, AgentName(agent_id), creds, reset,
                           via, confirmed)

get_status(m) ==
    IF is_authenticated(m) THEN "authenticated"
    ELSE IF needs_agent_selection(m) THEN "needs_selection"
    ELSE IF m.error # "" THEN "error"
    ELSE IF m.auth_complete THEN "error"
    ELSE "not_authenticated"

stdioOther == <<now, advances, nextTok, nextCode, pending_logins, pendingObj, auth_codes,
                access_tokens, refresh_tokens, disk, clients, clients_disk, requests,
                attempts>>

\* get_auth_url: the old listener is shut down, the event and the error are
\* cleared, a new listener is started; the identity fields are left as they are
GetAuthUrl ==
    /\ mgr' = [mgr EXCEPT !.server = TRUE, !.auth_complete = FALSE, !.error = ""]
    /\ ret' = Ret("get_auth_url", 0, "auth_url")
    /\ UNCHANGED <<stored_key, reset_log>>
    /\ UNCHANGED stdioOther

\* the state parameter of a callback request, as it relates to the state that
\* the latest get_auth_url put into the authorization URL: that very value, the
\* value of an earlier URL, or none.  get_auth_url keeps no copy of the state.
CallbackStates == {"current", "stale", ""}

\* GET /callback on the listener: only the code parameter is read
HandleCallback(state, code, token, list, agents, creds, reset) ==
    /\ mgr.server
    /\ IF code = ""
       THEN /\ mgr' = [mgr EXCEPT !.error = "missing_code", !.auth_complete = TRUE]
            /\ ret' = Ret("callback", state, "error_page")
            /\ UNCHANGED <<stored_key, reset_log>>
       ELSE LET o == do_auth_exchange(mgr, stored_key, token, list, agents, creds, reset)
            IN  /\ stored_key' = o.keys
                /\ reset_log' = reset_log \cup o.resets
                /\ IF o.raised # ""
                   THEN /\ mgr' = [o.mgr EXCEPT !.error = o.raised, !.auth_complete = TRUE]
                        /\ ret' = Ret("callback", state, "error_page")
                   ELSE IF is_authenticated(o.mgr)
                   THEN /\ mgr' = [o.mgr EXCEPT !.auth_complete = TRUE]
                        /\ ret' = Ret("callback", state, "success_page")
                   ELSE /\ mgr' = o.mgr
                        /\ ret' = Ret("callback", state, "selection_page")
    /\ UNCHANGED stdioOther

\* POST /select on the listener
HandleSelectSubmit(agent_id, creds, reset) ==
    /\ mgr.server
    /\ IF agent_id = ""
       THEN /\ ret' = Ret("select_submit", 0, "error")
            /\ UNCHANGED <<mgr, stored_key, reset_log>>
       ELSE LET o == select_agent(mgr, stored_key, agent_id, creds, reset, "select_submit",
                                  FALSE)
            IN  /\ stored_key' = o.keys
                /\ reset_log' = reset_log \cup o.resets
                /\ IF o.raised = ""
                   THEN /\ mgr' = [o.mgr EXCEPT !.auth_complete = TRUE]
                        /\ ret' = Ret("select_submit", 0, "success")
                   ELSE /\ mgr' = o.mgr
                        /\ ret' = Ret("select_submit", 0, "error")
    /\ UNCHANGED stdioOther

\* the switch_agent tool, action "switch", in stdio mode (no OAuth token, the
\* manager holds a JWT): it delegates to select_agent whatever confirm_reset is
SwitchAgentStdio(agent_id, confirm_reset, creds, reset) ==
    /\ mgr.jwt # ""
    /\ LET o == select_agent(mgr, stored_key, agent_id, creds, reset, "switch_agent",
                             confirm_reset)
       IN  /\ stored_key' = o.keys
           /\ reset_log' = reset_log \cup o.resets
           /\ mgr' = o.mgr
           /\ ret' = Ret("switch_agent", 0, IF o.raised = "" THEN "authenticated" ELSE "error")
    /\ UNCHANGED stdioOther

GetStatus ==
    /\ ret' = Ret("get_status", 0, get_status(mgr))
    /\ UNCHANGED <<mgr, stored_key, reset_log>>
    /\ UNCHANGED stdioOther

StdioAgentLists == {<<>>, <<"A">>, <<"B">>, <<"A", "B">>}
BackendAnswers == {"ok", "fail"}
ResetAnswers == {"ok", "fail", "no_key"}

\* what a callback request and the backend calls behind it can be: the code
\* parameter and the answers of the token exchange, the agent list, the
\* credentials and the reset-key call; an answer that is never asked for (the
\* call before it failed) is listed once, as "fail"
CallbackInputs ==
    {x \in [code : {"", "code1"}, token : {"ok", "fail", "no_jwt"}, list : BackendAnswers,
            agents : StdioAgentLists, creds : BackendAnswers, reset : ResetAnswers] :
        /\ (x.code = "" => x.token = "fail")
        /\ (x.token # "ok" => x.list = "fail")
        /\ (x.list # "ok" => x.agents = <<>>)
        /\ (Len(x.agents) # 1 => x.creds = "fail")
        /\ (x.creds # "ok" => x.reset = "fail")}

StdioNext ==
    \/ GetAuthUrl
    \/ \E st \in CallbackStates, x \in CallbackInputs :
           HandleCallback(st, x.code, x.token, x.list, x.agents, x.creds, x.reset)
    \/ \E a \in Agents \cup {""}, creds \in BackendAnswers, reset \in ResetAnswers :
           HandleSelectSubmit(a, creds, reset)
    \/ \E a \in Agents, c \in BOOLEAN, creds \in BackendAnswers, reset \in ResetAnswers :
           SwitchAgentStdio(a, c, creds, reset)
    \/ GetStatus

StdioSpec == Init /\ [][StdioNext]_vars

\* the listener thread and the tool calls keep being served: some step of the
\* manager is always taken eventually
StdioLiveSpec == StdioSpec /\ WF_vars(StdioNext)

(***************************************************************************)
(* The store over its whole life: client registration, agent switching,    *)
(* every time-bounded entity with its read, housekeeping and restarts.     *)
(***************************************************************************)
\* a store whose rebinding reports failure and skips the save
update_access_token_agent_unsaved(tbl, tok) == FALSE

\* storage.py update_access_token_agent: `data = self.access_tokens.get(token)`,
\* `if not data: return False`; the clock is not consulted
update_access_token_agent_result(tbl, tok) == tok \in DOMAIN tbl

update_access_token_agent_store(tbl, tok, api_key, agent_id, agent_name) ==
    IF tok \in DOMAIN tbl
    THEN [tbl EXCEPT ![tok] = [@ EXCEPT !.agent_api_key = api_key,
                                        !.agent_id = agent_id,
                                        !.agent_name = agent_name]]
    ELSE tbl

\* the store call that ends switch_agent(action="switch") in HTTP mode
UpdateAccessTokenAgent(tok, agent) ==
    /\ ret' = Ret("update_access_token_agent", [token |-> tok, agent_id |-> agent],
                  update_access_token_agent_result(access_tokens, tok))
    /\ access_tokens' = update_access_token_agent_store(access_tokens, tok, <<agent, 0>>,
                                                        agent, AgentName(agent))
    /\ IF update_access_token_agent_result(access_tokens, tok)
       THEN disk' = SavedTokens(access_tokens', refresh_tokens)
       ELSE UNCHANGED disk
    /\ UNCHANGED <<now, advances, nextTok, nextCode, auth_codes, refresh_tokens>>
    /\ UNCHANGED flowVars
    /\ UNCHANGED stdioVars
    /\ UNCHANGED clientVars

\* what dynamic registration hands to register_client: no redirect URI; one
\* redirect URI with everything else left out; a re-registration with two
\* redirect URIs, a secret and its own grant types
ClientInfos ==
    {[client_id |-> "c1", client_secret |-> None, redirect_uris |-> {},
      grant_types |-> {}, response_types |-> {}, token_endpoint_auth_method |-> None,
      scope |-> None],
     [client_id |-> "c1", client_secret |-> None, redirect_uris |-> {"https://client/cb"},
      grant_types |-> {}, response_types |-> {}, token_endpoint_auth_method |-> None,
      scope |-> None],
     [client_id |-> "c1", client_secret |-> "secret",
      redirect_uris |-> {"https://client/cb", "https://client/alt"},
      grant_types |-> {"authorization_code"}, response_types |-> {"code"},
      token_endpoint_auth_method |-> "client_secret_post", scope |-> "agent"]}

\* Python `x or d` on a list
OrDefaultList(x, d) == IF x = {} THEN d ELSE x

\* register_client: the OAuthClientData built from the registration
OAuthClientData(info) ==
    [client_id |-> info.client_id,
     client_secret |-> info.client_secret,
     redirect_uris |-> info.redirect_uris,
     client_name |-> None,
     grant_types |-> OrDefaultList(info.grant_types, {"authorization_code", "refresh_token"}),
     response_types |-> OrDefaultList(info.response_types, {"code"}),
     token_endpoint_auth_method |-> OrDefault(info.token_endpoint_auth_method, "none"),
     scope |-> info.scope]

RedirectUrisNeverMissing(info) == FALSE

\* `if not client_info.redirect_uris`
RedirectUrisMissing(info) == info.redirect_uris = {}

RegisterClient(info) ==
    /\ IF RedirectUrisMissing(info)
       THEN /\ ret' = Ret("register_client", info, "invalid_redirect_uri")
            /\ UNCHANGED clientVars
       ELSE /\ clients' = Put(clients, info.client_id, OAuthClientData(info))
            /\ clients_disk' = SavedClients(clients')
            /\ ret' = Ret("register_client", info, "ok")
    /\ UNCHANGED <<now, advances, nextTok, nextCode, auth_codes>>
    /\ UNCHANGED tokenVars
    /\ UNCHANGED flowVars
    /\ UNCHANGED stdioVars

\* provider get_client: the OAuthClientInformationFull rebuilt from the stored
\* record, or None
get_client_result(tbl, client_id) ==
    IF client_id \in DOMAIN tbl
    THEN <<[client_id |-> tbl[client_id].client_id,
            client_secret |-> tbl[client_id].client_secret,
            redirect_uris |-> tbl[client_id].redirect_uris,
            client_name |-> tbl[client_id].client_name,
            grant_types |-> tbl[client_id].grant_types,
            response_types |-> tbl[client_id].response_types,
            token_endpoint_auth_method |-> tbl[client_id].token_endpoint_auth_method,
            scope |-> tbl[client_id].scope]>>
    ELSE <<>>

GetClient(client_id) ==
    /\ ret' = Ret("get_client", client_id, get_client_result(clients, client_id))
    /\ UNCHANGED <<now, advances, nextTok, nextCode, auth_codes>>
    /\ UNCHANGED tokenVars
    /\ UNCHANGED flowVars
    /\ UNCHANGED stdioVars
    /\ UNCHANGED clientVars

\* the scopes argument of a refresh: none, narrower than, or wider than the
\* granted ones
StoreScopeArgs == {{}, {"agent"}, {"agent", "read", "admin"}}

\* the agent a session switches to
SwitchTargets == {"B"}

StoreNext ==
    \/ \E d \in TokenTimeSteps : Advance(d)
    \/ \E info \in ClientInfos : RegisterClient(info)
    \/ GetClient("c1")
    \/ Authorize("c1", "s1", {}, None)
    \/ \E st \in TokArgs : LoginPage(st)
    \/ \E s \in ScopeChoices, j \in Jwts : IssueAuthCode("c1", "A", 0, s, None, j)
    \/ \E k \in CodeArgs : ExchangeAuthorizationCode("c1", k)
    \/ \E k \in TokArgs, s \in StoreScopeArgs : ExchangeRefreshToken("c1", k, s)
    \/ \E k \in TokArgs : LoadAccessToken(k)
    \/ \E k \in TokArgs, a \in SwitchTargets : UpdateAccessTokenAgent(k, a)
    \/ Restart

StoreSpec == Init /\ [][StoreNext]_vars

(***************************************************************************)
(* The four time-bounded entities, their reads and the sweep, with the      *)
(* clock stepping by each TTL.                                              *)
(***************************************************************************)
\* the clock moves by one tick or by one of the TTLs
ExpiryTimeSteps ==
    {1, Secs(AUTH_CODE_EXPIRY), Secs(PENDING_LOGIN_TTL), Secs(ACCESS_TOKEN_EXPIRY),
     Secs(REFRESH_TOKEN_EXPIRY)}

ExpiryNext ==
    \/ \E d \in ExpiryTimeSteps : Advance(d)
    \/ Authorize("c1", "s1", {}, None)
    \/ \E st \in TokArgs : LoginPage(st)
    \/ \E s \in ScopeChoices, j \in Jwts : IssueAuthCode("c1", "A", 0, s, None, j)
    \/ \E k \in CodeArgs : LoadAuthorizationCode("c1", k)
    \/ \E k \in CodeArgs : ExchangeAuthorizationCode("c1", k)
    \/ \E k \in TokArgs : LoadAccessToken(k)
    \/ \E k \in TokArgs : LoadRefreshToken("c1", k)
    \/ CleanupExpired

ExpirySpec == Init /\ [][ExpiryNext]_vars

(***************************************************************************)
(* Claims checked under Spec (Token Store and provider token operations)   *)
(***************************************************************************)
ExchangeCodeCall(k) == ret'.op = "exchange_authorization_code" /\ ret'.arg = k
ExchangeRefreshCall(k) == ret'.op = "exchange_refresh_token" /\ ret'.arg = k
TokenTablesUnchanged == UNCHANGED <<access_tokens, refresh_tokens, disk>>

\* C1: an authorization code is single-use.  An exchange_authorization_code call
\* succeeds only on a code that is in the store and removes it; a code that has
\* been issued and is no longer in the store never comes back; every call on a
\* code that is not in the store fails with invalid_grant and leaves the access
\* and refresh tables (and their disk document) unchanged.  Hence at most one
\* call per code succeeds, and it is the first.
C1_SingleUseCode ==
    [][\A k \in CodeIds :
          /\ (ExchangeCodeCall(k) /\ ret'.result = "ok")
                => (k \in DOMAIN auth_codes /\ k \notin DOMAIN auth_codes')
          /\ (ExchangeCodeCall(k) /\ ret'.result # "ok")
                => (ret'.result = "invalid_grant" /\ TokenTablesUnchanged)
          /\ (k <= nextCode /\ k \notin DOMAIN auth_codes)
                => /\ k \notin DOMAIN auth_codes'
                   /\ ExchangeCodeCall(k) => ret'.result = "invalid_grant"
      ]_vars

\* C1 witness: the only code issued was exchanged (a token pair exists) and a
\* second exchange call on the same code has just failed.
C1_Witness ==
    /\ nextCode = 1
    /\ nextTok >= 2
    /\ ret = Ret("exchange_authorization_code", 1, "invalid_grant")

\* C2: a refresh token is single-use.  A successful exchange_refresh_token on R
\* removes R and mints a refresh token different from R; a token value that has
\* been drawn and is not in the refresh table never enters it again, every
\* load_refresh_token on it returns None and every exchange_refresh_token on it
\* fails with invalid_grant and mints nothing.
C2_SingleUseRefresh ==
    [][\A k \in TokIds :
          /\ (ExchangeRefreshCall(k) /\ ret'.result = "ok")
                => /\ k \in DOMAIN refresh_tokens
                   /\ k \notin DOMAIN refresh_tokens'
                   /\ DOMAIN refresh_tokens' \ DOMAIN refresh_tokens # {}
                   /\ k \notin DOMAIN refresh_tokens' \ DOMAIN refresh_tokens
          /\ (k <= nextTok /\ k \notin DOMAIN refresh_tokens)
                => /\ k \notin DOMAIN refresh_tokens'
                   /\ (ret'.op = "load_refresh_token" /\ ret'.arg = k)
                         => ret'.result = None
                   /\ ExchangeRefreshCall(k)
                         => (ret'.result = "invalid_grant" /\ TokenTablesUnchanged)
      ]_vars

\* C2 witness: token 2 is the refresh token of the first pair; a second pair
\* exists, minted by refreshing it, and a replay of token 2 has just failed.
C2_Witness ==
    /\ nextCode = 1
    /\ nextTok = 4
    /\ ret = Ret("exchange_refresh_token", 2, "invalid_grant")

SameIdentity(tokenData, src) ==
    /\ tokenData.agent_api_key = src.agent_api_key
    /\ tokenData.agent_id = src.agent_id
    /\ tokenData.agent_name = src.agent_name
    /\ tokenData.user_jwt = src.user_jwt

MintedAccess == DOMAIN access_tokens' \ DOMAIN access_tokens
MintedRefresh == DOMAIN refresh_tokens' \ DOMAIN refresh_tokens

\* C7: the pair minted by exchange_authorization_code carries agent_api_key,
\* agent_id, agent_name and user_jwt of the code consumed, the pair minted by
\* exchange_refresh_token those of the refresh token consumed; neither exchange
\* touches the backend (its stored keys, the handlers waiting on it).
C7_IdentityCarried ==
    [][/\ (ret'.op = "exchange_authorization_code" /\ ret'.result = "ok")
             => /\ ret'.arg \in DOMAIN auth_codes
                /\ Cardinality(MintedAccess) = 1 /\ Cardinality(MintedRefresh) = 1
                /\ \A t \in MintedAccess :
                       SameIdentity(access_tokens'[t], auth_codes[ret'.arg])
                /\ \A t \in MintedRefresh :
                       SameIdentity(refresh_tokens'[t], auth_codes[ret'.arg])
       /\ (ret'.op = "exchange_refresh_token" /\ ret'.result = "ok")
             => /\ ret'.arg \in DOMAIN refresh_tokens
                /\ Cardinality(MintedAccess) = 1 /\ Cardinality(MintedRefresh) = 1
                /\ \A t \in MintedAccess :
                       SameIdentity(access_tokens'[t], refresh_tokens[ret'.arg])
                /\ \A t \in MintedRefresh :
                       SameIdentity(refresh_tokens'[t], refresh_tokens[ret'.arg])
       /\ ret'.op \in {"exchange_authorization_code", "exchange_refresh_token"}
             => UNCHANGED <<stored_key, requests>>
      ]_vars

\* C7 witness: a refresh has just succeeded on the pair minted from a code.
C7_Witness ==
    /\ ret = Ret("exchange_refresh_token", 2, "ok")
    /\ 3 \in DOMAIN access_tokens /\ 4 \in DOMAIN refresh_tokens
    /\ access_tokens[3].agent_id \in Agents

\* C8 as stated: a record returned by get_access_token at time now has
\* expires_at strictly greater than now.
C8_ReturnedStrictlyInFuture ==
    \A k \in TokIds :
        get_access_token_result(access_tokens, k, now) # <<>>
            => get_access_token_result(access_tokens, k, now)[1].expires_at > now

\* C8 amended: a record returned by get_access_token (and so by
\* load_access_token) at time now never has expires_at in the past, i.e.
\* expires_at >= now, whether or not the stale entry was evicted before.
C8_NeverReturnedExpired ==
    /\ \A k \in TokIds :
          get_access_token_result(access_tokens, k, now) # <<>>
              => get_access_token_result(access_tokens, k, now)[1].expires_at >= now
    /\ (ret.op = "load_access_token" /\ ret.result = "found")
          => (ret.arg \in DOMAIN access_tokens /\ access_tokens[ret.arg].expires_at >= now)
    /\ (ret.op = "load_access_token" /\ ret.result = None)
          => ret.arg \notin DOMAIN access_tokens

\* C8 witness: load_access_token has just returned a token at the very instant
\* of its expires_at.
C8_Witness ==
    /\ ret.op = "load_access_token" /\ ret.result = "found"
    /\ ret.arg \in DOMAIN access_tokens
    /\ access_tokens[ret.arg].expires_at = now

\* C9: exchange_authorization_code fails with invalid_grant and mints nothing
\* whenever the code is absent, already consumed, or past its expires_at at the
\* time of the call (no load_authorization_code need have run).
C9_ExpiredCodeRejected ==
    [][\A k \in CodeIds :
          (ExchangeCodeCall(k)
             /\ (k \notin DOMAIN auth_codes \/ auth_codes[k].expires_at < now))
              => (ret'.result = "invalid_grant" /\ TokenTablesUnchanged)
      ]_vars

\* C10 as stated: a load by a client other than the entry's owner returns None
\* and leaves the entry in the store unchanged.
C10_ForeignLoadLeavesEntry ==
    [][\A c \in ClientIds :
          /\ \A k \in CodeIds :
                (LoadAuthorizationCode(c, k) /\ k \in DOMAIN auth_codes
                   /\ auth_codes[k].client_id # c)
                    => (ret'.result = None /\ auth_codes' = auth_codes)
          /\ \A k \in TokIds :
                (LoadRefreshToken(c, k) /\ k \in DOMAIN refresh_tokens
                   /\ refresh_tokens[k].client_id # c)
                    => (ret'.result = None /\ refresh_tokens' = refresh_tokens)
      ]_vars

\* C10 amended: a load by a client other than the entry's owner returns None;
\* if the entry has not expired it is left in the store unchanged and a load by
\* its owner still finds it (an expired entry is evicted, as by any read).
C10_ForeignLoadRejected ==
    [][\A c \in ClientIds :
          /\ \A k \in CodeIds :
                (LoadAuthorizationCode(c, k) /\ k \in DOMAIN auth_codes
                   /\ auth_codes[k].client_id # c)
                    => /\ ret'.result = None
                       /\ ~auth_code_expired(auth_codes[k], now)
                            => /\ auth_codes' = auth_codes
                               /\ LoadOwned(get_auth_code_result(auth_codes', k, now'),
                                            auth_codes[k].client_id)
          /\ \A k \in TokIds :
                (LoadRefreshToken(c, k) /\ k \in DOMAIN refresh_tokens
                   /\ refresh_tokens[k].client_id # c)
                    => /\ ret'.result = None
                       /\ ~token_expired(refresh_tokens[k], now)
                            => /\ refresh_tokens' = refresh_tokens
                               /\ LoadOwned(get_refresh_token_result(refresh_tokens', k, now'),
                                            refresh_tokens[k].client_id)
      ]_vars

\* C10 witness: a load of a live refresh token has just returned None although
\* the token is in the table (the requester was not its owner).
C10_Witness ==
    /\ ret.op = "load_refresh_token" /\ ret.result = None
    /\ ret.arg \in DOMAIN refresh_tokens
    /\ ~token_expired(refresh_tokens[ret.arg], now)

(***************************************************************************)
(* Claims checked under FlowSpec (authorize, login, selection, completion)  *)
(***************************************************************************)
HandlerKinds == {"login", "google", "select"}
\* the last step ended a handler invocation with the redirect to the client
RedirectAnswered == ret.op \in HandlerKinds /\ ret.result.body = "redirect"

\* C3: for every authorization attempt that completes, on every login path,
\* the state parameter of the redirect is exactly the state the client passed
\* to authorize (a client that passed no state gets a redirect without one),
\* and it is never the internal login state.
C3_RedirectStateIsClientState ==
    RedirectAnswered
        => LET query == ret.result.redirect.query
               passed == attempts[ret.arg.state].state_param
           IN  /\ passed # None => ("state" \in DOMAIN query /\ query["state"] = passed)
               /\ passed = None => "state" \notin DOMAIN query
               /\ "state" \in DOMAIN query
                     => query["state"] # StateString(ret.arg.state)

\* C3, the part that holds: a non-empty client state comes back unchanged, and
\* the state parameter is never the internal login state.
C3_NonEmptyStateRoundTrip ==
    RedirectAnswered
        => LET query == ret.result.redirect.query
               passed == attempts[ret.arg.state].state_param
           IN  /\ passed \notin {None, ""}
                     => ("state" \in DOMAIN query /\ query["state"] = passed)
               /\ "state" \in DOMAIN query
                     => query["state"] # StateString(ret.arg.state)

\* C4: in _complete_authorization, when get_agent_credentials reports no stored
\* key: without confirm_reset the handler answers needs_reset (the federated
\* callback turns it into the redirect to the selection page), has made no
\* reset call, and the stored keys, the auth codes and the pending logins are
\* unchanged; with confirm_reset it makes its one reset call.  When that call
\* answers with a key, the request was a confirmed one with exactly one reset
\* call, the code stored by the step is bound to the new key, which is the key
\* the backend now holds, and the pending login is consumed.  No other step
\* changes a stored key.
C4_ResetNeedsConfirmation ==
    [][/\ \A i \in DOMAIN requests :
            LET r == requests[i]
            IN  /\ (CredentialsReturn(i, "ok") /\ stored_key[r.agent_id] = NoKey
                      /\ ~r.confirm_reset)
                       => /\ i \notin DOMAIN requests'
                          /\ ret'.result = GoogleWrap(r.kind, r.state, NeedsResetResp)
                          /\ r.reset_calls = 0
                          /\ UNCHANGED <<stored_key, auth_codes, pending_logins, nextCode>>
                /\ (CredentialsReturn(i, "ok") /\ stored_key[r.agent_id] = NoKey
                      /\ r.confirm_reset)
                       => /\ requests' = [requests EXCEPT ![i].pc = "await_reset",
                                                            ![i].reset_calls = 1]
                          /\ UNCHANGED <<stored_key, auth_codes, pending_logins, nextCode>>
                /\ ResetReturns(i, "ok")
                       => /\ r.confirm_reset /\ r.reset_calls = 1
                          /\ stored_key'[r.agent_id] # stored_key[r.agent_id]
                          /\ nextCode' = nextCode + 1
                          /\ auth_codes'[nextCode'].agent_api_key = stored_key'[r.agent_id]
                          /\ auth_codes'[nextCode'].agent_id = r.agent_id
                          /\ ret'.result.body = "redirect"
                          /\ r.state \notin pending_logins'
       /\ stored_key' # stored_key
            => \E i \in DOMAIN requests :
                   /\ requests[i].pc = "await_reset" /\ requests[i].confirm_reset
                   /\ i \notin DOMAIN requests'
      ]_vars

\* C4 witness: agent B had no stored key; a selection request with
\* confirm_reset has just completed after its one reset call, and the code it
\* stored carries the key the backend generated.
C4_Witness ==
    /\ RedirectAnswered
    /\ ret.op = "select" /\ ret.arg.confirm_reset /\ ret.arg.reset_calls = 1
    /\ ret.arg.agent_id = "B"
    /\ stored_key["B"] = <<"B", 1>>
    /\ ret.result.redirect.query["code"] \in DOMAIN auth_codes
    /\ auth_codes[ret.result.redirect.query["code"]].agent_api_key = <<"B", 1>>

\* C6: at most one AuthCodeData is ever created from a PendingLogin, whatever
\* the interleaving of the requests that carry its internal state.
C6_OneCodePerPendingLogin ==
    \A st \in DOMAIN attempts : attempts[st].codes <= 1

(***************************************************************************)
(* Claims checked under StdioSpec (stdio auth manager)                      *)
(***************************************************************************)
\* C5: in every flow that resolves an agent's API key, the backend key reset is
\* invoked only after the caller explicitly supplied a confirmation; it is
\* never performed merely because the stored key is absent.
C5_ResetOnlyAfterConfirmation ==
    \A call \in reset_log : call.confirmed


(***************************************************************************)
(* Claims about the store over its whole life (StoreSpec)                   *)
(***************************************************************************)
UpdateCall == ret'.op = "update_access_token_agent"

AgentFields == {"agent_api_key", "agent_id", "agent_name"}

\* the update touched nothing but the agent fields of record tok
OnlyAgentFieldsChanged(tok) ==
    /\ DOMAIN access_tokens' = DOMAIN access_tokens
    /\ \A k \in DOMAIN access_tokens \ {tok} : access_tokens'[k] = access_tokens[k]
    /\ \A f \in DOMAIN access_tokens[tok] \ AgentFields :
           access_tokens'[tok][f] = access_tokens[tok][f]
    /\ refresh_tokens' = refresh_tokens

\* C11: update_access_token_agent on a stored, still-valid access token changes
\* only the three agent fields of that record, leaves every other token alone
\* and makes the next get_access_token return the new agent_id; on an absent or
\* expired token it returns False and changes nothing.
C11_UpdateRebindsOnlyValidToken ==
    [][UpdateCall =>
        LET tok == ret'.arg.token
        IN  IF get_access_token_result(access_tokens, tok, now) # <<>>
            THEN /\ ret'.result = TRUE
                 /\ OnlyAgentFieldsChanged(tok)
                 /\ get_access_token_result(access_tokens', tok, now)[1].agent_id
                        = ret'.arg.agent_id
            ELSE /\ ret'.result = FALSE
                 /\ access_tokens' = access_tokens
                 /\ refresh_tokens' = refresh_tokens
                 /\ disk' = disk]_vars

\* the part of C11 about a stored token (valid or not) and about an absent one
C11_StoredTokenFrame ==
    [][UpdateCall =>
        LET tok == ret'.arg.token
        IN  IF tok \in DOMAIN access_tokens
            THEN /\ ret'.result = TRUE
                 /\ OnlyAgentFieldsChanged(tok)
                 /\ access_tokens'[tok].agent_id = ret'.arg.agent_id
                 /\ disk' = SavedTokens(access_tokens', refresh_tokens')
            ELSE /\ ret'.result = FALSE
                 /\ access_tokens' = access_tokens
                 /\ refresh_tokens' = refresh_tokens
                 /\ disk' = disk]_vars


RestartCall == ret'.op = "restart"

\* the entries of a token table whose expires_at is not in the past at time t
NotInPast(tbl, t) == Keep(tbl, {k \in DOMAIN tbl : tbl[k].expires_at >= t})

\* C12: the token tables a fresh TokenStore loads from the documents the old
\* one saved are exactly the saved tokens whose expires_at is not in the past
\* at load time, each with the field values it had; the others are not loaded.
C12_SaveLoadRoundTrip ==
    [][RestartCall =>
        /\ access_tokens' = NotInPast(access_tokens, now)
        /\ refresh_tokens' = NotInPast(refresh_tokens, now)]_vars

\* a restart that loaded one access token (one that has no resource) and
\* skipped another, expired one
C12_Witness ==
    /\ ret.op = "restart"
    /\ \E k \in DOMAIN access_tokens : access_tokens[k].resource = None
    /\ DOMAIN disk.access_tokens # DOMAIN access_tokens
    /\ refresh_tokens # Empty


RegisterCall == ret'.op = "register_client"
GetClientCall == ret'.op = "get_client"

AllowedScopes(s, old) == IF s # {} /\ s \subseteq old.scopes THEN s ELSE old.scopes

\* C16: the access and the refresh token minted by exchange_refresh_token carry
\* a subset of the scopes of the refresh token consumed: the caller's scopes
\* when these are narrower, the original scopes otherwise.
C16_RefreshNeverWidensScopes ==
    [][\A k \in TokIds :
          (ExchangeRefreshCall(k) /\ ret'.result = "ok") =>
              \E s \in StoreScopeArgs :
                  /\ \A a \in DOMAIN access_tokens' \ DOMAIN access_tokens :
                         /\ access_tokens'[a].scopes \subseteq refresh_tokens[k].scopes
                         /\ access_tokens'[a].scopes = AllowedScopes(s, refresh_tokens[k])
                  /\ \A r \in DOMAIN refresh_tokens' \ DOMAIN refresh_tokens :
                         /\ refresh_tokens'[r].scopes \subseteq refresh_tokens[k].scopes
                         /\ refresh_tokens'[r].scopes = AllowedScopes(s, refresh_tokens[k])
      ]_vars


(***************************************************************************)
(* Claims about expiry (ExpirySpec)                                         *)
(***************************************************************************)
\* the read times looked at for an entity whose last readable instant is d
Probes(d) == {now, d - 1, d, d + 1}

\* the instant a token minted at time t counts from: t itself, or t truncated
\* to whole seconds
MintTime(t, truncated) == IF truncated THEN IntTime(t) ELSE t

\* an entity created in this step is returned by its read at every time up to
\* its creation time plus its TTL and at no later time; a read in this step
\* returns the entry iff it is stored and the clock is not past that instant
ReadableForTTL(truncated) ==
    /\ \A st \in pending_logins' \ pending_logins : \A t \in Probes(now + Secs(PENDING_LOGIN_TTL)) :
           get_pending_login_result(pending_logins', pendingObj', st, t) # <<>>
               <=> t <= now + Secs(PENDING_LOGIN_TTL)
    /\ \A c \in DOMAIN auth_codes' \ DOMAIN auth_codes : \A t \in Probes(now + Secs(AUTH_CODE_EXPIRY)) :
           get_auth_code_result(auth_codes', c, t) # <<>>
               <=> t <= now + Secs(AUTH_CODE_EXPIRY)
    /\ \A a \in MintedAccess : \A t \in Probes(now + Secs(ACCESS_TOKEN_EXPIRY)) :
           get_access_token_result(access_tokens', a, t) # <<>>
               <=> t <= MintTime(now, truncated) + Secs(ACCESS_TOKEN_EXPIRY)
    /\ \A r \in MintedRefresh : \A t \in Probes(now + Secs(REFRESH_TOKEN_EXPIRY)) :
           get_refresh_token_result(refresh_tokens', r, t) # <<>>
               <=> t <= MintTime(now, truncated) + Secs(REFRESH_TOKEN_EXPIRY)
    /\ \A st \in pending_logins \cap pending_logins' :
           pendingObj'[st].created_at = pendingObj[st].created_at
    /\ \A c \in DOMAIN auth_codes \cap DOMAIN auth_codes' :
           auth_codes'[c].expires_at = auth_codes[c].expires_at
    /\ \A a \in DOMAIN access_tokens \cap DOMAIN access_tokens' :
           access_tokens'[a].expires_at = access_tokens[a].expires_at
    /\ \A r \in DOMAIN refresh_tokens \cap DOMAIN refresh_tokens' :
           refresh_tokens'[r].expires_at = refresh_tokens[r].expires_at
    /\ ret'.op = "login_page" =>
           (ret'.result = "found" <=>
               /\ ret'.arg \in pending_logins
               /\ now <= pendingObj[ret'.arg].created_at + Secs(PENDING_LOGIN_TTL))
    /\ ret'.op = "load_authorization_code" =>
           (ret'.result = "found" <=>
               /\ ret'.arg \in DOMAIN auth_codes
               /\ now <= auth_codes[ret'.arg].expires_at)
    /\ ret'.op = "load_access_token" =>
           (ret'.result = "found" <=>
               /\ ret'.arg \in DOMAIN access_tokens
               /\ now <= access_tokens[ret'.arg].expires_at)
    /\ ret'.op = "load_refresh_token" =>
           (ret'.result = "found" <=>
               /\ ret'.arg \in DOMAIN refresh_tokens
               /\ now <= refresh_tokens[ret'.arg].expires_at)

\* C14 as stated: a pending login created at t is readable up to t + 600 s, an
\* auth code issued at t up to t + 300 s, an access token minted at t up to
\* t + 3600 s and a refresh token minted at t up to t + 7 days, and none of them
\* later.
C14_ReadableExactlyTTL == [][ReadableForTTL(FALSE)]_vars

\* C14 with the tokens' TTL counted from the whole second in which they were
\* minted: pending login up to t + 600 s, auth code up to t + 300 s, access token
\* up to floor(t) + 3600 s, refresh token up to floor(t) + 7 days.
C14_ReadableUntilDeadline == [][ReadableForTTL(TRUE)]_vars

\* a refresh token read seven days after it was minted, the last instant at
\* which it is returned
C14_Witness ==
    /\ ret.op = "load_refresh_token"
    /\ ret.result = "found"
    /\ refresh_tokens[ret.arg].expires_at = now
    /\ now = Secs(REFRESH_TOKEN_EXPIRY)


\* every read at time t answers the same before and after this step
ReadsUnchangedAt(t) ==
    /\ \A st \in DOMAIN attempts :
           get_pending_login_result(pending_logins', pendingObj', st, t)
               = get_pending_login_result(pending_logins, pendingObj, st, t)
    /\ \A c \in CodeIds :
           get_auth_code_result(auth_codes', c, t) = get_auth_code_result(auth_codes, c, t)
    /\ \A k \in TokIds :
           /\ get_access_token_result(access_tokens', k, t)
                  = get_access_token_result(access_tokens, k, t)
           /\ get_refresh_token_result(refresh_tokens', k, t)
                  = get_refresh_token_result(refresh_tokens, k, t)

\* C15: cleanup_expired removes only entries that get_pending_login,
\* get_auth_code, get_access_token and get_refresh_token already report as
\* absent: a read gives the same result whether or not a sweep ran before it.
C15_CleanupInvisibleToReads ==
    [][CleanupExpired => ReadsUnchangedAt(now) /\ ReadsUnchangedAt(now + 1)]_vars

\* the part of C15 that holds: reads made strictly after the sweep's clock value
\* are not affected by it
C15_LaterReadsUnaffected ==
    [][CleanupExpired => ReadsUnchangedAt(now + 1) /\ ReadsUnchangedAt(now + Secs(1))]_vars


(***************************************************************************)
(* Claims about the login callbacks (FlowSpec)                              *)
(***************************************************************************)
LoginKinds == {"login", "google"}

\* the auth code stored in this step, if exactly one was
OneCodeStored(c) == DOMAIN auth_codes' \ DOMAIN auth_codes = {c}

\* code data cd is the login pl completed for agent a with key k
CodeOfLogin(cd, pl, a, k) ==
    /\ cd.agent_id = a
    /\ cd.agent_api_key = k
    /\ cd.client_id = pl.client_id
    /\ cd.redirect_uri = pl.redirect_uri
    /\ cd.code_challenge = pl.code_challenge
    /\ cd.scopes = pl.scopes
    /\ cd.resource = pl.resource

\* C18: when the login has succeeded and get_my_agents returns exactly one
\* agent, the login callback goes on to that agent's credentials within the
\* same request, with no answer and no selection page in between; when the
\* backend then returns the agent's stored key, the request stores exactly one
\* AuthCodeData with that agent's id and key and the PendingLogin's client_id,
\* redirect_uri, code_challenge, scopes and resource, consumes the PendingLogin
\* and answers with the redirect to the client.
C18_SingleAgentCompletes ==
    [][\A i \in RequestIds :
          /\ \A a \in Agents :
                 (i \in DOMAIN requests /\ AgentsReturn(i, "ok", <<a>>)) =>
                     /\ requests[i].kind \in LoginKinds
                     /\ i \in DOMAIN requests'
                     /\ requests'[i].pc = "await_creds"
                     /\ requests'[i].agent_id = a
                     /\ requests'[i].state = requests[i].state
                     /\ ret' = NoRet
                     /\ auth_codes' = auth_codes
          /\ (/\ i \in DOMAIN requests
              /\ requests[i].kind \in LoginKinds
              /\ CredentialsReturn(i, "ok")
              /\ stored_key[requests[i].agent_id] # NoKey) =>
                 /\ i \notin DOMAIN requests'
                 /\ ret'.op = requests[i].kind
                 /\ ret'.result.body = "redirect"
                 /\ \E c \in DOMAIN auth_codes' :
                        /\ OneCodeStored(c)
                        /\ CodeOfLogin(auth_codes'[c], pendingObj[requests[i].state],
                                       requests[i].agent_id, stored_key[requests[i].agent_id])
                        /\ ret'.result.redirect.query["code"] = c
                 /\ requests[i].state \notin pending_logins'
      ]_vars

\* a phone login of a user whose only agent is A has just been answered with
\* the redirect to the client; the code is stored and the PendingLogin is gone
C18_Witness ==
    /\ ret.op = "login"
    /\ ret.arg.pc = "await_creds"
    /\ ret.arg.agent_id = "A"
    /\ ret.result.body = "redirect"
    /\ ret.result.redirect.query["code"] \in DOMAIN auth_codes
    /\ ret.arg.state \notin pending_logins
    /\ attempts[ret.arg.state].codes = 1

\* C19: when the login has succeeded and get_my_agents returns more than one
\* agent, the login callback answers with a redirect to the selection page for
\* the same internal state, stores no AuthCodeData and leaves the PendingLogin in
\* place with the session credential attached; a step that stores a code answers
\* a selection request or a login callback that went on with a single agent.
C19_SeveralAgentsGoToSelection ==
    [][/\ \A i \in RequestIds : \A l \in AgentLists :
              (i \in DOMAIN requests /\ Len(l) > 1 /\ AgentsReturn(i, "ok", l)) =>
                  /\ requests[i].kind \in LoginKinds
                  /\ ret'.op = requests[i].kind
                  /\ ret'.result.body = "select_agent"
                  /\ ret'.result.redirect.query
                         = [n \in {"state"} |-> StateString(requests[i].state)]
                  /\ auth_codes' = auth_codes
                  /\ pending_logins' = pending_logins
                  /\ pendingObj' = pendingObj
                  /\ pendingObj'[requests[i].state].user_jwt # None
       /\ DOMAIN auth_codes' \ DOMAIN auth_codes # {} =>
              \/ ret'.op = "select"
              \/ ret'.op \in LoginKinds /\ ret'.arg.pc = "await_creds"
      ]_vars

\* a federated login of a user with two agents has just been answered with the
\* redirect to the selection page; no code exists, the PendingLogin is in place
\* and holds the session credential
C19_Witness ==
    /\ ret.op = "google"
    /\ ret.arg.pc = "await_agents"
    /\ ret.result.body = "select_agent"
    /\ ret.result.status = 302
    /\ auth_codes = Empty
    /\ ret.arg.state \in pending_logins
    /\ pendingObj[ret.arg.state].user_jwt # None


(***************************************************************************)
(* Claims about the stdio auth manager's status (StdioSpec)                 *)
(***************************************************************************)
\* C20: whenever get_status is called, it reports authenticated exactly when an
\* API key is held, needs_selection exactly when a session credential is held
\* together with more than one agent and no API key, and not_authenticated only
\* when no session credential has been obtained.
C20_StatusMatchesCredentials ==
    ret.op = "get_status" =>
        /\ ret.result = "authenticated" <=> mgr.api_key # NoKey
        /\ ret.result = "needs_selection" <=>
               (mgr.jwt # "" /\ Len(mgr.agents) > 1 /\ mgr.api_key = NoKey)
        /\ ret.result = "not_authenticated" => mgr.jwt = ""

\* the part of C20 that holds: the two positive reports are exact, and
\* not_authenticated is never reported while an API key is held or a selection
\* is due
C20_PositiveReportsExact ==
    ret.op = "get_status" =>
        /\ ret.result = "authenticated" <=> mgr.api_key # NoKey
        /\ ret.result = "needs_selection" <=>
               (mgr.jwt # "" /\ Len(mgr.agents) > 1 /\ mgr.api_key = NoKey)
        /\ ret.result = "not_authenticated" =>
               (mgr.api_key = NoKey /\ (mgr.jwt = "" \/ Len(mgr.agents) <= 1))


\* C21: once the callback or the selection endpoint has obtained an API key,
\* the listener eventually stops accepting requests.
C21_ListenerEventuallyStops ==
    (ret.op \in {"callback", "select_submit"} /\ mgr.api_key # NoKey /\ mgr.server)
        ~> ~mgr.server

\* what holds instead: no step stops a listener that is running (get_auth_url
\* replaces it by a new one)
C21_ListenerStaysUp == [][mgr.server => mgr'.server]_vars


IdentityFields == {"jwt", "agents", "api_key", "agent_id", "agent_name"}

\* C22: a callback request whose state is missing or is not the state of the
\* latest authorization URL is rejected and changes none of jwt, agents,
\* api_key, agent_id, agent_name.
C22_ForeignCallbackRejected ==
    [][(ret'.op = "callback" /\ ret'.arg # "current") =>
           /\ ret'.result = "error_page"
           /\ \A f \in IdentityFields : mgr'[f] = mgr[f]]_vars


\* this step is a callback that failed on a manager holding no API key
CallbackFailed == ret'.op = "callback" /\ ret'.result = "error_page" /\ mgr.api_key = NoKey

\* C23: when the callback fails on a manager that holds no API key, the failure
\* is recorded, the completion signal is set and get_status reports error; it
\* goes on reporting error until a get_auth_url call or until an API key is
\* obtained, whatever jwt or agent list is held.
C23_FailureReportedAsError ==
    [][/\ CallbackFailed =>
              /\ mgr'.error # ""
              /\ mgr'.auth_complete
              /\ get_status(mgr') = "error"
       /\ (/\ get_status(mgr) = "error"
           /\ ret'.op # "get_auth_url"
           /\ mgr'.api_key = NoKey) => get_status(mgr') = "error"]_vars

\* the part of C23 that holds: the failure is recorded and the signal set, and
\* the status is error unless a selection among several agents is due
C23_FailureRecorded ==
    [][CallbackFailed =>
           /\ mgr'.error # ""
           /\ mgr'.auth_complete
           /\ get_status(mgr') \in {"error", "needs_selection"}
           /\ get_status(mgr') = "needs_selection" => needs_agent_selection(mgr')]_vars

(***************************************************************************)
(* The documents under a store that is built again: the files can be       *)
(* removed, overwritten with text that is not JSON, or hold an entry that  *)
(* is not a valid record.                                                  *)
(***************************************************************************)
FileDamages == {"missing", "unreadable"}
TokenTables == {"access_tokens", "refresh_tokens"}

\* an entry written without its "token" field
DamagedEntry(j) == Keep(j, DOMAIN j \ {"token"})
\* a client entry written without its "redirect_uris" field
DamagedClient(j) == Keep(j, DOMAIN j \ {"redirect_uris"})

DamageFrame ==
    /\ ret' = Ret("damage", 0, None)
    /\ UNCHANGED <<now, advances, nextTok, nextCode, pending_logins, pendingObj,
                   auth_codes, access_tokens, refresh_tokens, clients, stored_key,
                   requests, attempts, mgr, reset_log>>

LoseTokensFile(how) ==
    /\ Readable(disk)
    /\ disk' = FileLost(how)
    /\ UNCHANGED clients_disk
    /\ DamageFrame

DamageTokenEntry(tbl, k) ==
    /\ Readable(disk)
    /\ k \in DOMAIN disk[tbl]
    /\ "token" \in DOMAIN disk[tbl][k]
    /\ disk' = [disk EXCEPT ![tbl][k] = DamagedEntry(@)]
    /\ UNCHANGED clients_disk
    /\ DamageFrame

LoseClientsFile(how) ==
    /\ Readable(clients_disk)
    /\ clients_disk' = FileLost(how)
    /\ UNCHANGED disk
    /\ DamageFrame

DamageClientEntry(c) ==
    /\ Readable(clients_disk)
    /\ c \in DOMAIN clients_disk
    /\ "redirect_uris" \in DOMAIN clients_disk[c]
    /\ clients_disk' = [clients_disk EXCEPT ![c] = DamagedClient(@)]
    /\ UNCHANGED disk
    /\ DamageFrame

RegistrableClients == {info \in ClientInfos : info.redirect_uris = {"https://client/cb"}}

LoadNext ==
    \/ \E d \in TokenTimeSteps : Advance(d)
    \/ \E info \in RegistrableClients : RegisterClient(info)
    \/ \E s \in ScopeChoices, j \in Jwts : IssueAuthCode("c1", "A", 0, s, None, j)
    \/ \E k \in CodeArgs : ExchangeAuthorizationCode("c1", k)
    \/ \E k \in TokArgs, s \in StoreScopeArgs : ExchangeRefreshToken("c1", k, s)
    \/ \E how \in FileDamages : LoseTokensFile(how)
    \/ \E tbl \in TokenTables, k \in TokArgs : DamageTokenEntry(tbl, k)
    \/ \E how \in FileDamages : LoseClientsFile(how)
    \/ DamageClientEntry("c1")
    \/ Restart

LoadSpec == Init /\ [][LoadNext]_vars

\* a token document that does not load as a whole: the file is lost, or one of
\* its entries is not a valid record
TokensDocumentBad(d) ==
    \/ ~Readable(d)
    \/ LoopRaises(d.access_tokens, TokenRequired, TokenDefaulted)
    \/ LoopRaises(d.refresh_tokens, TokenRequired, {})
ClientsDocumentBad(d) ==
    \/ ~Readable(d)
    \/ \E c \in DOMAIN d : ~Constructible(d[c], ClientRequired, ClientDefaulted)

\* C24: a TokenStore built over a client or token document that is missing or
\* does not read as valid records comes up (the construction returns), and the
\* tables of the affected document are then empty: no entry of it is loaded.
C24_BadDocumentLoadsNothing ==
    [][RestartCall =>
        /\ TokensDocumentBad(disk) => (access_tokens' = Empty /\ refresh_tokens' = Empty)
        /\ ClientsDocumentBad(clients_disk) => clients' = Empty]_vars

\* What the construction does with such documents: it always returns; a lost
\* file gives empty tables; a token document with an invalid entry gives the
\* unexpired entries written before that entry, and no refresh token at all
\* when the invalid entry is an access token.
C24_LoadStopsAtBadEntry ==
    [][RestartCall =>
        /\ ~Readable(disk) => (access_tokens' = Empty /\ refresh_tokens' = Empty)
        /\ ~Readable(clients_disk) => clients' = Empty
        /\ Readable(disk) =>
            /\ \A k \in DOMAIN disk.access_tokens :
                  k \in DOMAIN access_tokens' <=>
                      /\ \A b \in DOMAIN disk.access_tokens :
                            b <= k => "token" \in DOMAIN disk.access_tokens[b]
                      /\ disk.access_tokens[k].expires_at >= now
            /\ DOMAIN access_tokens' \subseteq DOMAIN disk.access_tokens
            /\ \A k \in DOMAIN disk.refresh_tokens :
                  k \in DOMAIN refresh_tokens' <=>
                      /\ \A b \in DOMAIN disk.access_tokens :
                            "token" \in DOMAIN disk.access_tokens[b]
                      /\ \A b \in DOMAIN disk.refresh_tokens :
                            b <= k => "token" \in DOMAIN disk.refresh_tokens[b]
                      /\ disk.refresh_tokens[k].expires_at >= now
            /\ DOMAIN refresh_tokens' \subseteq DOMAIN disk.refresh_tokens]_vars

\* a store that came up over a token document with an invalid access-token
\* entry and holds the entry written before it
C24_Witness ==
    /\ ret.op = "restart"
    /\ Readable(disk)
    /\ LoopRaises(disk.access_tokens, TokenRequired, TokenDefaulted)
    /\ access_tokens # Empty
    /\ refresh_tokens = Empty
    /\ DOMAIN disk.refresh_tokens # {}

BackendFailures == {"api_error", "exception"}

\* handler i has just been told that its backend call failed
BackendCallFailed(i) ==
    \E o \in BackendFailures :
        \/ LoginReturns(i, o)
        \/ AgentsReturn(i, o, <<>>)
        \/ CredentialsReturn(i, o)
        \/ ResetReturns(i, o)

\* C25: whichever way a backend call of the login, federated-callback or
\* selection handler fails (non-2xx answer or transport failure), the handler
\* ends with an HTTP error response (4xx or 500) carrying an error message; no
\* failure leaves the handler as an unhandled exception.
C25_BackendFailureAnswered ==
    [][\A i \in RequestIds :
          BackendCallFailed(i) =>
              /\ ret'.op \in HandlerKinds
              /\ ret'.result.body = "error"
              /\ ret'.result.status \in {400, 500}]_vars

\* What holds: a non-2xx answer of any backend call, and any failure of the
\* login call itself, ends the handler with an error response; a transport
\* failure of get_my_agents, get_agent_credentials or reset_agent_key leaves
\* the handler as an exception, with no code issued and the login kept.
C25_TypedFailureAnswered ==
    [][\A i \in RequestIds :
          /\ (\E o \in BackendFailures : LoginReturns(i, o)) =>
                (ret'.result.body = "error" /\ ret'.result.status \in {400, 500})
          /\ (AgentsReturn(i, "api_error", <<>>) \/ CredentialsReturn(i, "api_error")
                  \/ ResetReturns(i, "api_error")) =>
                (ret'.result.body = "error" /\ ret'.result.status = 400)
          /\ (AgentsReturn(i, "exception", <<>>) \/ CredentialsReturn(i, "exception")
                  \/ ResetReturns(i, "exception")) =>
                /\ ret'.result = RaisedResp
                /\ auth_codes' = auth_codes
                /\ pending_logins' = pending_logins]_vars

\* the state names a PendingLogin that get_pending_login returns
LiveLogin(state) == get_pending_login_result(pending_logins, pendingObj, state, now) # <<>>

\* a request turned away at the door: a 4xx answer, no handler left waiting for
\* the backend, no reset-key call, and nothing of the flow or the token store
\* touched except that the expired PendingLogin named by the request is gone
TurnedAway(state) ==
    /\ ret'.op \in HandlerKinds
    /\ ret'.result.body = "error"
    /\ ret'.result.status = 400
    /\ requests' = requests
    /\ reset_log' = reset_log
    /\ stored_key' = stored_key
    /\ pendingObj' = pendingObj
    /\ auth_codes' = auth_codes
    /\ UNCHANGED tokenVars
    /\ pending_logins' \subseteq pending_logins
    /\ \A x \in pending_logins \ pending_logins' :
          x = state /\ pending_login_expired(pendingObj[x], now)

\* the handler invocations that have just gone on to their first backend call
Admitted == {requests'[i] : i \in DOMAIN requests' \ DOMAIN requests}

\* C26: a login callback without phone or state, a selection request without
\* state or agent_id, and a login or selection request whose state names no
\* live PendingLogin get a 4xx answer; no backend call is made, and no
\* PendingLogin, auth code or token is created, changed or removed, except that
\* the expired PendingLogin the request names is evicted.  A callback either
\* answers at once or goes on to the backend, so: a request without phone is
\* turned away; every request that goes on to the backend names a live
\* PendingLogin (and an agent, for a selection); and every request answered at
\* once is turned away.
C26_BadRequestTurnedAway ==
    [][/\ \A st \in StateArgs : LoginCallback("login", "", st) => TurnedAway(st)
       /\ \A r \in Admitted :
            /\ r.state # NoState
            /\ LiveLogin(r.state)
            /\ r.kind = "select" => r.agent_id # ""
       /\ (ret'.op \in HandlerKinds /\ ret'.arg.pc = "start") => TurnedAway(ret'.arg.state)]_vars

\* a selection request that named a live, logged-in PendingLogin but no agent
\* has been turned away
C26_Witness ==
    /\ ret.op = "select"
    /\ ret.arg.pc = "start"
    /\ ret.arg.agent_id = ""
    /\ ret.result.status = 400
    /\ LiveLogin(ret.arg.state)
    /\ pendingObj[ret.arg.state].user_jwt # None

(***************************************************************************)
(* Two authorization attempts of two clients, their handlers interleaved.  *)
(***************************************************************************)
MaxPairLogins == 2

\* the client state each client sends
PairStateParam(c) == IF c = "c1" THEN "s1" ELSE "s2"

\* authorize for a client that has not started an attempt yet
PairAuthorize(c) ==
    /\ \A st \in DOMAIN pendingObj : pendingObj[st].client_id # c
    /\ AuthorizeUpTo(MaxPairLogins, c, PairStateParam(c), {}, None)

PairNext ==
    \/ \E c \in ClientIds : PairAuthorize(c)
    \/ \E st \in TokArgs : LoginCallback("login", "p", st)
    \/ \E i \in RequestIds, o \in {"ok", "api_error"} : LoginReturns(i, o)
    \/ \E i \in RequestIds, l \in {<<"A">>, <<"A", "B">>} : AgentsReturn(i, "ok", l)
    \/ \E st \in TokArgs, a \in Agents : SelectAgentCallback(st, a, TRUE)
    \/ \E i \in RequestIds, o \in {"ok", "api_error"} : CredentialsReturn(i, o)
    \/ \E i \in RequestIds, o \in {"ok", "api_error"} : ResetReturns(i, o)
    \/ \E c \in ClientIds, k \in CodeArgs : ExchangeAuthorizationCode(c, k)

PairSpec == Init /\ [][PairNext]_vars

\* the internal state carried by the operation of this step: that of the
\* handler invocation that was resumed, admitted or answered at once
Carried ==
    {requests[i].state :
        i \in {j \in DOMAIN requests : j \notin DOMAIN requests' \/ requests'[j] # requests[j]}}
    \cup {r.state : r \in Admitted}
    \cup (IF ret'.op \in HandlerKinds /\ ret'.arg.pc = "start" THEN {ret'.arg.state} ELSE {})

\* the auth codes issued to the client of attempt t
CodesOf(codes, t) == Keep(codes, {k \in DOMAIN codes : codes[k].client_id = pendingObj[t].client_id})
TokensOf(tbl, t) == Keep(tbl, {k \in DOMAIN tbl : tbl[k].client_id = pendingObj[t].client_id})

\* nothing of attempt t is read into the step's result or changed by it
Untouched(t) ==
    /\ pendingObj'[t] = pendingObj[t]
    /\ (t \in pending_logins') = (t \in pending_logins)
    /\ CodesOf(auth_codes', t) = CodesOf(auth_codes, t)
    /\ TokensOf(access_tokens', t) = TokensOf(access_tokens, t)
    /\ TokensOf(refresh_tokens', t) = TokensOf(refresh_tokens, t)
    /\ attempts'[t] = attempts[t]

\* C27: two authorization attempts (different internal states, different
\* clients) are independent.  An operation carrying one internal state leaves
\* the PendingLogin, the auth codes and the tokens of the other attempt as they
\* were; the code it issues is bound to its own PendingLogin's client,
\* redirect URI, challenge, scopes, resource and JWT, to the agent it asked for
\* and to the key the backend holds for that agent, and its redirect goes to
\* its own client with its own client state: in every interleaving.
C27_AttemptsIndependent ==
    [][/\ \A s \in Carried : \A t \in DOMAIN pendingObj \ {s} : Untouched(t)
       /\ \A k \in DOMAIN auth_codes' \ DOMAIN auth_codes :
            /\ ret'.op \in HandlerKinds
            /\ LET r == ret'.arg
                   own == pendingObj[r.state]
               IN  /\ auth_codes'[k] =
                          AuthCodeData(k, own, stored_key'[r.agent_id], r.agent_id,
                                       AgentName(r.agent_id), now)
                   /\ ret'.result.redirect.uri = own.redirect_uri
                   /\ ret'.result.redirect.query["code"] = k
                   /\ ret'.result.redirect.query["state"] = attempts[r.state].state_param]_vars

\* one attempt has just been answered with its code while a handler of the
\* other attempt is waiting for the backend, and the other attempt's
\* PendingLogin is still there
C27_Witness ==
    /\ RedirectAnswered
    /\ \E i \in DOMAIN requests :
          /\ requests[i].state # ret.arg.state
          /\ requests[i].state \in pending_logins
    /\ Cardinality(DOMAIN attempts) = 2

(***************************************************************************)
(* Tool calls: _get_agent_client picks the credential of the call from the *)
(* request's OAuth token, the stdio manager or the configured API key.     *)
(***************************************************************************)
\* get_access_token() of the request context returns None
NoBearer == 0 - 1
\* settings.clawdchat_api_key: not set, or a key
ConfiguredKeys == {NoKey, <<"configured", 0>>}

Credential(source, key) == [source |-> source, key |-> key]

\* a resolver that goes on to the other sources when the token is not valid
get_agent_client_falling_back(bearer, at, t, m, configured) ==
    LET res == IF bearer = NoBearer THEN <<>> ELSE get_access_token_result(at, bearer, t)
    IN  IF res # <<>> THEN Credential("oauth", res[1].agent_api_key)
        ELSE IF is_authenticated(m) THEN Credential("stdio", m.api_key)
        ELSE IF configured # NoKey THEN Credential("configured", configured)
        ELSE Credential("error", NoKey)

\* _get_agent_client: the credential the call is made with, or the error
get_agent_client(bearer, at, t, m, configured) ==
    IF bearer # NoBearer
    THEN LET res == get_access_token_result(at, bearer, t)
         IN  IF res = <<>> THEN Credential("error", NoKey)
             ELSE Credential("oauth", res[1].agent_api_key)
    ELSE IF is_authenticated(m) THEN Credential("stdio", m.api_key)
    ELSE IF configured # NoKey THEN Credential("configured", configured)
    ELSE Credential("error", NoKey)

\* a tool call resolving its credential: the read of the token evicts it when
\* expired; with nothing to use and no selection pending, get_auth_url is called
GetAgentClient(bearer, configured) ==
    LET c == get_agent_client(bearer, access_tokens, now, mgr, configured)
    IN  /\ ret' = Ret("get_agent_client", [bearer |-> bearer, configured |-> configured], c)
        /\ access_tokens' = IF bearer # NoBearer
                            THEN get_access_token_store(access_tokens, bearer, now)
                            ELSE access_tokens
        /\ IF access_tokens' # access_tokens
           THEN disk' = SavedTokens(access_tokens', refresh_tokens)
           ELSE UNCHANGED disk
        /\ mgr' = IF bearer = NoBearer /\ c.source = "error" /\ ~needs_agent_selection(mgr)
                  THEN [mgr EXCEPT !.server = TRUE, !.auth_complete = FALSE, !.error = ""]
                  ELSE mgr
        /\ UNCHANGED <<now, advances, nextTok, nextCode, auth_codes, refresh_tokens,
                       reset_log>>
        /\ UNCHANGED flowVars
        /\ UNCHANGED clientVars

ToolNext ==
    \/ \E d \in TokenTimeSteps : Advance(d)
    \/ \E s \in ScopeChoices, j \in Jwts : IssueAuthCode("c1", "A", 0, s, None, j)
    \/ \E k \in CodeArgs : ExchangeAuthorizationCode("c1", k)
    \/ GetAuthUrl
    \/ \E x \in CallbackInputs :
           HandleCallback("current", x.code, x.token, x.list, x.agents, x.creds, x.reset)
    \/ \E b \in TokArgs \cup {NoBearer}, k \in ConfiguredKeys : GetAgentClient(b, k)

ToolSpec == Init /\ [][ToolNext]_vars

\* C28: _get_agent_client resolves the credential in a fixed priority.  With an
\* OAuth access token in the request context it uses the agent_api_key bound
\* to that token in the store, and fails if the token is unknown or expired,
\* whatever key the stdio manager or the configuration holds; with no token it
\* uses the stdio manager's key, else the configured key, and fails when
\* there is none.
C28_CredentialPriority ==
    [][ret'.op = "get_agent_client" =>
          LET bearer == ret'.arg.bearer
              configured == ret'.arg.configured
              c == ret'.result
          IN  /\ (bearer # NoBearer /\ bearer \in DOMAIN access_tokens
                      /\ access_tokens[bearer].expires_at >= now)
                    => c = Credential("oauth", access_tokens[bearer].agent_api_key)
              /\ (bearer # NoBearer /\ ~(bearer \in DOMAIN access_tokens
                                          /\ access_tokens[bearer].expires_at >= now))
                    => c = Credential("error", NoKey)
              /\ (bearer = NoBearer /\ mgr.api_key # NoKey)
                    => c = Credential("stdio", mgr.api_key)
              /\ (bearer = NoBearer /\ mgr.api_key = NoKey /\ configured # NoKey)
                    => c = Credential("configured", configured)
              /\ (bearer = NoBearer /\ mgr.api_key = NoKey /\ configured = NoKey)
                    => c = Credential("error", NoKey)]_vars

\* a call that carried a token which is not, or no longer, an access token of
\* the store has failed although the stdio manager holds a key and a key is
\* configured
C28_Witness ==
    /\ ret.op = "get_agent_client"
    /\ ret.arg.bearer # NoBearer
    /\ ret.arg.bearer \notin DOMAIN access_tokens
    /\ ret.result.source = "error"
    /\ mgr.api_key # NoKey
    /\ ret.arg.configured # NoKey

(***************************************************************************)
(* Every Token Store operation on tokens, with restarts, for one client.   *)
(***************************************************************************)
\* the clock passes the lifetime of an access token and that of a refresh token
PersistTimeSteps == TokenTimeSteps \cup {Secs(REFRESH_TOKEN_EXPIRY)}

PersistNext ==
    \/ \E d \in PersistTimeSteps : Advance(d)
    \/ \E s \in ScopeChoices, j \in Jwts : IssueAuthCode("c1", "A", 0, s, None, j)
    \/ \E k \in CodeArgs : ExchangeAuthorizationCode("c1", k)
    \/ \E k \in TokArgs : ExchangeRefreshToken("c1", k, {})
    \/ \E k \in TokArgs : LoadAccessToken(k)
    \/ \E k \in TokArgs : LoadRefreshToken("c1", k)
    \/ \E kind \in {"access", "refresh"}, k \in TokArgs : RevokeToken(kind, k)
    \/ \E k \in TokArgs, a \in SwitchTargets : UpdateAccessTokenAgent(k, a)
    \/ CleanupExpired
    \/ Restart

PersistSpec == Init /\ [][PersistNext]_vars

TokenTablesChanged == access_tokens' # access_tokens \/ refresh_tokens' # refresh_tokens
\* update_access_token_agent found its token and wrote the agent into it
RewroteToken == ret'.op = "update_access_token_agent" /\ ret'.result = TRUE

\* C29: after every completed Token Store operation that adds, removes or
\* rewrites an access or refresh token, the token document on disk is the
\* encoding of the access and refresh tables in memory; an operation that
\* changes no token does not write the document.  (Building the store from the
\* document is not such an operation: it writes nothing.)
C29_DiskFollowsTables ==
    [][~RestartCall =>
          /\ (TokenTablesChanged \/ RewroteToken)
                => disk' = [access_tokens |-> [k \in DOMAIN access_tokens' |->
                                                  asdict_json(access_tokens'[k])],
                            refresh_tokens |-> [k \in DOMAIN refresh_tokens' |->
                                                  asdict_json(refresh_tokens'[k])]]
          /\ ~(TokenTablesChanged \/ RewroteToken) => disk' = disk]_vars

\* a token has just been rebound to another agent; the document shows it and
\* holds the refresh tokens of the store
C29_Witness ==
    /\ ret.op = "update_access_token_agent"
    /\ ret.result = TRUE
    /\ disk.access_tokens[ret.arg.token].agent_id = ret.arg.agent_id
    /\ DOMAIN disk.refresh_tokens = DOMAIN refresh_tokens
    /\ refresh_tokens # Empty

(***************************************************************************)
(* One authorization attempt from authorize to its tokens, beside a login  *)
(* completed as in Spec, with refresh and restart.                         *)
(***************************************************************************)
LifeNext ==
    \/ Authorize("c1", "s1", {}, None)
    \/ \E st \in TokArgs : LoginCallback("login", "p", st)
    \/ \E i \in RequestIds, o \in {"ok", "api_error"} : LoginReturns(i, o)
    \/ \E i \in RequestIds, l \in {<<"A">>, <<"A", "B">>} : AgentsReturn(i, "ok", l)
    \/ \E st \in TokArgs, a \in Agents : SelectAgentCallback(st, a, TRUE)
    \/ \E i \in RequestIds, o \in {"ok", "api_error"} : CredentialsReturn(i, o)
    \/ \E i \in RequestIds, o \in {"ok", "api_error"} : ResetReturns(i, o)
    \/ \E s \in ScopeChoices, j \in Jwts : IssueAuthCode("c1", "A", 0, s, None, j)
    \/ \E k \in CodeArgs : ExchangeAuthorizationCode("c1", k)
    \/ \E k \in TokArgs : ExchangeRefreshToken("c1", k, {})
    \/ Restart

LifeSpec == Init /\ [][LifeNext]_vars

NewCodes == DOMAIN auth_codes' \ DOMAIN auth_codes
NewAccessTokens == DOMAIN access_tokens' \ DOMAIN access_tokens
NewRefreshTokens == DOMAIN refresh_tokens' \ DOMAIN refresh_tokens

\* C30: the order of an authorization attempt is respected along every
\* execution.  A PendingLogin starts without a session credential and gets one
\* only from a successful backend login of a handler carrying its state; an
\* AuthCodeData is created from a PendingLogin only when that PendingLogin has
\* its session credential and a credential call (or the reset it led to) has
\* just returned a key for the chosen agent, and it carries both; an access or
\* refresh token enters the store only by consuming an auth code, by consuming
\* a refresh token, or by being loaded from the document on disk.
C30_LifecycleOrder ==
    [][/\ \A t \in DOMAIN pendingObj' \ DOMAIN pendingObj : pendingObj'[t].user_jwt = None
       /\ \A t \in DOMAIN pendingObj \cap DOMAIN pendingObj' :
            pendingObj'[t].user_jwt # pendingObj[t].user_jwt
                => \E i \in DOMAIN requests : requests[i].state = t /\ LoginReturns(i, "ok")
       /\ \A k \in NewCodes :
            /\ auth_codes'[k].user_jwt # None
            /\ auth_codes'[k].agent_api_key # NoKey
       /\ (NewCodes # {} /\ ret'.op \in HandlerKinds) =>
            LET r == ret'.arg
            IN  /\ pendingObj[r.state].user_jwt # None
                /\ \E i \in RequestIds : CredentialsReturn(i, "ok") \/ ResetReturns(i, "ok")
                /\ \A k \in NewCodes :
                      /\ auth_codes'[k].user_jwt = pendingObj[r.state].user_jwt
                      /\ auth_codes'[k].agent_id = r.agent_id
                      /\ auth_codes'[k].agent_api_key = stored_key'[r.agent_id]
       /\ (~RestartCall /\ NewAccessTokens \cup NewRefreshTokens # {}) =>
            \/ /\ ret'.op = "exchange_authorization_code"
               /\ ret'.arg \in DOMAIN auth_codes \ DOMAIN auth_codes'
            \/ /\ ret'.op = "exchange_refresh_token"
               /\ ret'.arg \in DOMAIN refresh_tokens \ DOMAIN refresh_tokens'
       /\ RestartCall =>
            /\ \A k \in DOMAIN access_tokens' :
                  /\ k \in DOMAIN disk.access_tokens
                  /\ access_tokens'[k] = from_json(disk.access_tokens[k])
            /\ \A k \in DOMAIN refresh_tokens' :
                  /\ k \in DOMAIN disk.refresh_tokens
                  /\ refresh_tokens'[k] = from_json(disk.refresh_tokens[k])]_vars

\* the code of an attempt that went through login and agent selection has
\* just been exchanged for the tokens now in the store
C30_Witness ==
    /\ ret.op = "exchange_authorization_code"
    /\ ret.result = "ok"
    /\ nextCode = 1
    /\ \E t \in DOMAIN attempts : attempts[t].codes = 1 /\ pendingObj[t].user_jwt # None
    /\ access_tokens # Empty
    /\ refresh_tokens # Empty

(***************************************************************************)
(* Requests of the login flow that end in an error                         *)
(***************************************************************************)
\* a login, federated-callback or selection request has just ended in an error:
\* an error response, or an exception that left the handler
EndedInError ==
    /\ ret'.op \in HandlerKinds
    /\ ret'.result.body \in {"error", "raised"}

\* C31: when a login or authorization-completion request ends in an error
\* (backend login failure, missing session credential, agent-list failure, zero
\* agents, credential-fetch failure, reset returning no key), no AuthCodeData
\* is stored and the PendingLogin is not consumed: every PendingLogin that was
\* live before the request ended is live afterwards, with the fields it had,
\* so the same state can be retried until the PendingLogin expires.
C31_ErrorKeepsLogin ==
    [][EndedInError =>
          /\ auth_codes' = auth_codes
          /\ nextCode' = nextCode
          /\ \A st \in pending_logins :
                ~pending_login_expired(pendingObj[st], now) =>
                    /\ st \in pending_logins'
                    /\ pendingObj'[st] = pendingObj[st]
                    /\ now' = now]_vars

\* a confirmed reset has answered without a key: the request ended in an
\* error and its PendingLogin, already logged in, is still live
C31_Witness ==
    /\ ret.op = "select"
    /\ ret.arg.pc = "await_reset"
    /\ ret.result.body = "error"
    /\ LiveLogin(ret.arg.state)
    /\ pendingObj[ret.arg.state].user_jwt # None
    /\ auth_codes = Empty

(***************************************************************************)
(* Agent switch and refresh                                                *)
(***************************************************************************)
\* both exchanges draw the access token and then the refresh token from
\* generate_token(): the access token issued together with refresh token rt
IssuedWith(rt) == rt - 1

\* C32: after update_access_token_agent has rebound a live access token to
\* agent B, the access token minted by the next exchange_refresh_token on the
\* refresh token issued together with it is bound to agent B as well: the
\* refreshed access token has the agent binding (id, name, key) that the access
\* token it replaces has at the time of the refresh.
C32_RefreshKeepsSwitch ==
    [][\A k \in DOMAIN refresh_tokens :
          (ExchangeRefreshCall(k) /\ ret'.result = "ok"
              /\ IssuedWith(k) \in DOMAIN access_tokens) =>
             \A t \in DOMAIN access_tokens' \ DOMAIN access_tokens :
                /\ access_tokens'[t].agent_id = access_tokens[IssuedWith(k)].agent_id
                /\ access_tokens'[t].agent_name = access_tokens[IssuedWith(k)].agent_name
                /\ access_tokens'[t].agent_api_key = access_tokens[IssuedWith(k)].agent_api_key]_vars

\* C33: the access token minted by exchange_refresh_token carries the same
\* resource indicator as the access token minted from the original
\* authorization code (the resource requested at authorize time), for every
\* chain of refreshes: each refreshed access token has the resource of the
\* access token it replaces.
C33_RefreshKeepsResource ==
    [][\A k \in DOMAIN refresh_tokens :
          (ExchangeRefreshCall(k) /\ ret'.result = "ok"
              /\ IssuedWith(k) \in DOMAIN access_tokens) =>
             \A t \in DOMAIN access_tokens' \ DOMAIN access_tokens :
                access_tokens'[t].resource = access_tokens[IssuedWith(k)].resource]_vars

(***************************************************************************)
(* Revocation                                                              *)
(***************************************************************************)
\* revoke_token has just been called with a token object of the given type
RevokeCall(kind, k) == ret'.op = "revoke_token" /\ ret'.arg = [kind |-> kind, token |-> k]

\* table tbl2 is table tbl1 without entry k, every other entry as it was
Without(tbl1, tbl2, k) ==
    /\ DOMAIN tbl2 = DOMAIN tbl1 \ {k}
    /\ \A t \in DOMAIN tbl2 : tbl2[t] = tbl1[t]

\* C34: revoke_token removes exactly the token presented, from the table
\* matching its type: revoking an access token leaves every refresh token
\* unchanged and still exchangeable, revoking a refresh token leaves every
\* access token unchanged and valid until its own expiry, and revoking a token
\* that is not in the store changes nothing and writes nothing.
C34_RevokeExact ==
    [][\A k \in TokArgs :
          /\ RevokeCall("access", k) =>
                /\ Without(access_tokens, access_tokens', k)
                /\ refresh_tokens' = refresh_tokens
                /\ \A r \in TokArgs :
                      get_refresh_token_result(refresh_tokens', r, now')
                          = get_refresh_token_result(refresh_tokens, r, now)
                /\ k \notin DOMAIN access_tokens => disk' = disk
          /\ RevokeCall("refresh", k) =>
                /\ Without(refresh_tokens, refresh_tokens', k)
                /\ access_tokens' = access_tokens
                /\ \A a \in TokArgs :
                      get_access_token_result(access_tokens', a, now')
                          = get_access_token_result(access_tokens, a, now)
                /\ k \notin DOMAIN refresh_tokens => disk' = disk]_vars

\* access token 1 has been revoked while access token 3 is held; the refresh
\* token is still there and exchangeable
C34_Witness ==
    /\ ret = Ret("revoke_token", [kind |-> "access", token |-> 1], None)
    /\ 1 \notin DOMAIN access_tokens
    /\ 3 \in DOMAIN access_tokens
    /\ get_refresh_token_result(refresh_tokens, 4, now) # <<>>

\* get_access_token / get_refresh_token has just found token k expired
EvictedAccess(k) ==
    /\ ret'.op = "load_access_token" /\ ret'.arg = k
    /\ k \in DOMAIN access_tokens /\ token_expired(access_tokens[k], now)
EvictedRefresh(k) ==
    /\ ret'.op = "load_refresh_token" /\ ret'.arg = k
    /\ k \in DOMAIN refresh_tokens /\ token_expired(refresh_tokens[k], now)

\* C35: once an access or refresh token has been revoked, consumed by a
\* refresh, or evicted as expired, no later get_access_token or
\* get_refresh_token returns it, for every sequence of store operations and
\* process restarts: each of the three removes the token from its table, and
\* a token that has been issued and is no longer in its table is in it after
\* no step (a restart included) and is returned by no lookup.
C35_RemovedStaysRemoved ==
    [][\A k \in 1..nextTok :
          /\ (RevokeCall("access", k) \/ EvictedAccess(k)) => k \notin DOMAIN access_tokens'
          /\ (RevokeCall("refresh", k) \/ EvictedRefresh(k)
                 \/ (ExchangeRefreshCall(k) /\ ret'.result = "ok"))
                => k \notin DOMAIN refresh_tokens'
          /\ k \notin DOMAIN access_tokens =>
                /\ k \notin DOMAIN access_tokens'
                /\ get_access_token_result(access_tokens', k, now') = <<>>
                /\ ~(ret'.op = "load_access_token" /\ ret'.arg = k /\ ret'.result = "found")
          /\ k \notin DOMAIN refresh_tokens =>
                /\ k \notin DOMAIN refresh_tokens'
                /\ get_refresh_token_result(refresh_tokens', k, now') = <<>>
                /\ ~(ret'.op = "load_refresh_token" /\ ret'.arg = k /\ ret'.result = "found")
      ]_vars

\* refresh token 2 was consumed by a refresh, access token 1 was revoked, and
\* a lookup of the consumed refresh token, long before it would have expired,
\* has returned nothing
C35_Witness ==
    /\ ret = Ret("load_refresh_token", 2, None)
    /\ nextTok = 4
    /\ 4 \in DOMAIN refresh_tokens
    /\ 1 \notin DOMAIN access_tokens
    /\ now < Secs(ACCESS_TOKEN_EXPIRY)

(***************************************************************************)
(* The client of a token chain                                             *)
(***************************************************************************)
\* C36: every access and refresh token in the store has the client_id of the
\* authorization code at the root of its chain: the pair minted by an exchange
\* has the client_id of the code or refresh token consumed (an exchange
\* invoked by another client mints nothing and consumes nothing).
C36_ChainKeepsClient ==
    [][/\ (ret'.op = "exchange_authorization_code" /\ ret'.result = "ok") =>
             /\ \A t \in MintedAccess :
                   access_tokens'[t].client_id = auth_codes[ret'.arg].client_id
             /\ \A t \in MintedRefresh :
                   refresh_tokens'[t].client_id = auth_codes[ret'.arg].client_id
       /\ (ret'.op = "exchange_refresh_token" /\ ret'.result = "ok") =>
             /\ \A t \in MintedAccess :
                   access_tokens'[t].client_id = refresh_tokens[ret'.arg].client_id
             /\ \A t \in MintedRefresh :
                   refresh_tokens'[t].client_id = refresh_tokens[ret'.arg].client_id]_vars

(***************************************************************************)
(* The switch_agent tool in HTTP mode, action "switch": the tool runs up to *)
(* its next `await` on the backend in one step, so that token operations of *)
(* other requests interleave with it.                                       *)
(***************************************************************************)
\* from `access_token_obj = get_access_token()` to the await of
\* get_agent_credentials; the manager holds no JWT (HTTP mode), so a token the
\* store does not return ends the tool with an error
SwitchAgentStart(tok, agent_id, confirm_reset) ==
    /\ FreeSlots # {}
    /\ Cardinality(DOMAIN requests) < MaxSwitchCalls
    /\ mgr.jwt = ""
    /\ access_tokens' = get_access_token_store(access_tokens, tok, now)
    /\ IF access_tokens' # access_tokens
       THEN disk' = SavedTokens(access_tokens', refresh_tokens)
       ELSE UNCHANGED disk
    /\ IF get_access_token_result(access_tokens, tok, now) = <<>>
       THEN /\ ret' = Ret("switch_agent",
                          Request("switch_agent", tok, agent_id, confirm_reset, "start"),
                          "error")
            /\ UNCHANGED requests
       ELSE /\ requests' = Put(requests, NewSlot,
                   Request("switch_agent", tok, agent_id, confirm_reset, "await_creds"))
            /\ ret' = NoRet
    /\ UNCHANGED <<now, advances, nextTok, nextCode, pending_logins, pendingObj, auth_codes,
                   refresh_tokens, stored_key, attempts>>
    /\ UNCHANGED stdioVars
    /\ UNCHANGED clientVars

\* `store.update_access_token_agent(...)` and the success message that
\* follows it; the value the store returns is not looked at
SwitchFinish(i, api_key) ==
    LET r == requests[i]
    IN  /\ access_tokens' = update_access_token_agent_store(access_tokens, r.state, api_key,
                                                            r.agent_id, AgentName(r.agent_id))
        /\ IF update_access_token_agent_result(access_tokens, r.state)
           THEN disk' = SavedTokens(access_tokens', refresh_tokens)
           ELSE UNCHANGED disk
        /\ Answer(i, "success")

\* get_agent_credentials returns to the tool; ClawdChatAPIError and (by the
\* outer `except Exception`) every other failure end the tool with an error
SwitchCredentialsReturn(i, outcome) ==
    /\ i \in DOMAIN requests
    /\ requests[i].kind = "switch_agent"
    /\ requests[i].pc = "await_creds"
    /\ LET r == requests[i]
           api_key == stored_key[r.agent_id]
       IN  IF outcome # "ok"
           THEN /\ Answer(i, "error")
                /\ UNCHANGED <<access_tokens, disk, reset_log>>
           ELSE IF api_key # NoKey
           THEN SwitchFinish(i, api_key) /\ UNCHANGED reset_log
           ELSE IF ~ResetConfirmed(r.confirm_reset)
           THEN /\ Answer(i, "needs_reset")
                /\ UNCHANGED <<access_tokens, disk, reset_log>>
           ELSE /\ requests' = [requests EXCEPT ![i].pc = "await_reset",
                                                ![i].reset_calls = @ + 1]
                /\ reset_log' = reset_log \cup
                                    {ResetCall(r.agent_id, "switch_agent", r.confirm_reset)}
                /\ ret' = NoRet
                /\ UNCHANGED <<access_tokens, disk>>
    /\ UNCHANGED <<now, advances, nextTok, nextCode, pending_logins, pendingObj, auth_codes,
                   refresh_tokens, stored_key, attempts, mgr>>
    /\ UNCHANGED clientVars

\* reset_agent_key returns to the tool: with a new key, without one, or failing
SwitchResetReturns(i, outcome) ==
    /\ i \in DOMAIN requests
    /\ requests[i].kind = "switch_agent"
    /\ requests[i].pc = "await_reset"
    /\ LET r == requests[i]
           api_key == ResetKey(r.agent_id, stored_key[r.agent_id])
       IN  IF outcome = "ok"
           THEN /\ stored_key' = [stored_key EXCEPT ![r.agent_id] = api_key]
                /\ SwitchFinish(i, api_key)
           ELSE /\ Answer(i, "error")
                /\ UNCHANGED <<access_tokens, disk, stored_key>>
    /\ UNCHANGED <<now, advances, nextTok, nextCode, pending_logins, pendingObj, auth_codes,
                   refresh_tokens, attempts>>
    /\ UNCHANGED stdioVars
    /\ UNCHANGED clientVars

SwitchNext ==
    \/ \E d \in TokenTimeSteps : Advance(d)
    \/ \E s \in ScopeChoices, j \in Jwts : IssueAuthCode("c1", "A", 0, s, None, j)
    \/ \E k \in CodeArgs : ExchangeAuthorizationCode("c1", k)
    \/ \E k \in TokArgs : ExchangeRefreshToken("c1", k, {})
    \/ \E k \in TokArgs : LoadAccessToken(k)
    \/ \E k \in TokArgs : RevokeToken("access", k)
    \/ \E k \in TokArgs, a \in Agents, c \in BOOLEAN : SwitchAgentStart(k, a, c)
    \/ \E i \in RequestIds, o \in BackendOutcomes : SwitchCredentialsReturn(i, o)
    \/ \E i \in RequestIds, o \in BackendOutcomes \cup {"no_key"} : SwitchResetReturns(i, o)

SwitchSpec == Init /\ [][SwitchNext]_vars

\* the tool has just returned its success message for access token tok
SwitchSucceeded(tok) ==
    /\ ret'.op = "switch_agent"
    /\ ret'.result = "success"
    /\ ret'.arg.state = tok

\* C37: switch_agent reports success only if the stored binding of the
\* caller's own access token was actually rewritten: the token is in the
\* store, bound to the agent asked for, when the tool returns success (so the
\* tool does not report success when the token was revoked or evicted while
\* it was suspended on the backend), and no other token's binding changes.
C37_SuccessMeansRebound ==
    [][\A tok \in TokArgs :
          SwitchSucceeded(tok) =>
             /\ tok \in DOMAIN access_tokens'
             /\ access_tokens'[tok].agent_id = ret'.arg.agent_id
             /\ access_tokens'[tok].agent_api_key = stored_key'[ret'.arg.agent_id]
             /\ \A t \in DOMAIN access_tokens' \ {tok} :
                   t \in DOMAIN access_tokens /\ access_tokens'[t] = access_tokens[t]
             /\ refresh_tokens' = refresh_tokens]_vars

(***************************************************************************)
(* stdio: a selection that fails                                           *)
(***************************************************************************)
\* api_key, agent_id and agent_name of the manager
SelectedAgent(m) == <<m.api_key, m.agent_id, m.agent_name>>

\* select_agent has just returned, called by POST /select or by the tool
SelectAgentReturned == ret'.op \in {"select_submit", "switch_agent"}

\* C38: select_agent called with an agent_id that is not in the manager's
\* agent list, or whose key acquisition fails, returns an error result and
\* leaves api_key, agent_id and agent_name unchanged (for an unlisted agent
\* without any backend call); the three fields change only together and only
\* when a key has been obtained: after a step that changed one of them they
\* are the key the backend holds for an agent of the list, that agent's id and
\* its name, and the step did not report an error.
C38_FailedSelectionKeepsAgent ==
    [][/\ \A a \in Agents, c \in BOOLEAN, creds \in BackendAnswers, reset \in ResetAnswers :
             (SwitchAgentStdio(a, c, creds, reset)
                  /\ \A k \in 1..Len(mgr.agents) : mgr.agents[k] # a) =>
                 /\ ret'.result = "error"
                 /\ mgr' = mgr
                 /\ UNCHANGED <<stored_key, reset_log>>
       /\ (SelectAgentReturned /\ ret'.result = "error") =>
             SelectedAgent(mgr') = SelectedAgent(mgr)
       /\ SelectedAgent(mgr') # SelectedAgent(mgr) =>
             /\ mgr'.api_key # NoKey
             /\ mgr'.api_key = stored_key'[mgr'.agent_id]
             /\ mgr'.agent_name = AgentName(mgr'.agent_id)
             /\ \E k \in 1..Len(mgr'.agents) : mgr'.agents[k] = mgr'.agent_id
             /\ ret'.result \notin {"error", "error_page"}]_vars

\* agent A is selected and the only agent of the list; a switch has just
\* returned an error (B is not in the list, or A's key could not be fetched)
C38_Witness ==
    /\ ret = Ret("switch_agent", 0, "error")
    /\ mgr.agents = <<"A">>
    /\ SelectedAgent(mgr) = <<stored_key["A"], "A", AgentName("A")>>
    /\ is_authenticated(mgr)

(***************************************************************************)
(* stdio: the threads of the manager.  The tool thread (the event loop) and *)
(* the thread of each HTTPServer started by get_auth_url share the manager  *)
(* without a lock.  A listener serves one request at a time; a request is   *)
(* in flight from its acceptance to its last statement, and the listener of *)
(* an earlier get_auth_url finishes the request it has in flight            *)
(* (HTTPServer.shutdown only stops the serve_forever loop).  Each attribute *)
(* read or write of the manager is one step.                                *)
(***************************************************************************)
\* where the request of a thread is kept: the listener started by the latest
\* get_auth_url, the listener shut down by it, the tool thread
ListenerSlot == 1
PreviousSlot == 2
ToolSlot == 3
Listeners == {ListenerSlot, PreviousSlot}
ServedBy(s) == IF s = ListenerSlot THEN "current" ELSE "previous"

\* the callbacks served in ThreadSpec: a code that the backend accepts, for a
\* user with one agent or two
ThreadCallbackInputs ==
    {x \in CallbackInputs : x.code # "" /\ x.token = "ok" /\ x.list = "ok"
                              /\ x.agents \in {<<"A">>, <<"A", "B">>} /\ x.reset # "no_key"}

\* get_auth_url on the tool thread: _shutdown_server() starts the shutdown of
\* the old listener and forgets it; the request that listener has in flight
\* goes on.  (Not called again while such a request is still in flight.)
GetAuthUrlThreaded ==
    /\ ToolSlot \notin DOMAIN requests
    /\ PreviousSlot \notin DOMAIN requests
    /\ mgr' = [mgr EXCEPT !.server = TRUE, !.auth_complete = FALSE, !.error = ""]
    /\ requests' = IF ListenerSlot \in DOMAIN requests
                   THEN Put(Drop(requests, ListenerSlot), PreviousSlot, requests[ListenerSlot])
                   ELSE requests
    /\ ret' = Ret("get_auth_url", 0, "auth_url")
    /\ UNCHANGED <<now, advances, nextTok, nextCode, pending_logins, pendingObj, auth_codes,
                   stored_key, attempts, reset_log>>
    /\ UNCHANGED tokenVars
    /\ UNCHANGED clientVars

\* GET /callback?code=... is accepted by the listener: _handle_callback is in
\* _do_auth_exchange, waiting for the backend
ServeCallback(x) ==
    /\ mgr.server
    /\ ListenerSlot \notin DOMAIN requests
    /\ requests' = Put(requests, ListenerSlot, [kind |-> "callback", pc |-> "exchange", input |-> x])
    /\ ret' = NoRet
    /\ UNCHANGED <<now, advances, nextTok, nextCode, pending_logins, pendingObj, auth_codes,
                   stored_key, attempts>>
    /\ UNCHANGED tokenVars
    /\ UNCHANGED stdioVars
    /\ UNCHANGED clientVars

\* the backend has answered: _do_auth_exchange writes what it got, and
\* _handle_callback its error or the completion signal
CallbackDone(s) ==
    /\ s \in DOMAIN requests
    /\ requests[s].kind = "callback"
    /\ LET x == requests[s].input
           o == do_auth_exchange(mgr, stored_key, x.token, x.list, x.agents, x.creds, x.reset)
       IN  /\ stored_key' = o.keys
           /\ reset_log' = reset_log \cup o.resets
           /\ IF o.raised # ""
              THEN /\ mgr' = [o.mgr EXCEPT !.error = o.raised, !.auth_complete = TRUE]
                   /\ ret' = Ret("callback", ServedBy(s), "error_page")
              ELSE IF is_authenticated(o.mgr)
              THEN /\ mgr' = [o.mgr EXCEPT !.auth_complete = TRUE]
                   /\ ret' = Ret("callback", ServedBy(s), "success_page")
              ELSE /\ mgr' = o.mgr
                   /\ ret' = Ret("callback", ServedBy(s), "selection_page")
    /\ requests' = Drop(requests, s)
    /\ UNCHANGED <<now, advances, nextTok, nextCode, pending_logins, pendingObj, auth_codes,
                   attempts>>
    /\ UNCHANGED tokenVars
    /\ UNCHANGED clientVars

\* POST /select is served by the listener: select_agent up to the key that
\* _select_agent_sync has obtained; a failure is answered at once
ServeSelect(agent_id, creds, reset) ==
    /\ mgr.server
    /\ ListenerSlot \notin DOMAIN requests
    /\ LET o == select_agent(mgr, stored_key, agent_id, creds, reset, "select_submit", FALSE)
       IN  /\ stored_key' = o.keys
           /\ reset_log' = reset_log \cup o.resets
           /\ IF o.raised # ""
              THEN /\ ret' = Ret("select_submit", ServedBy(ListenerSlot), "error")
                   /\ UNCHANGED requests
              ELSE /\ requests' = Put(requests, ListenerSlot,
                          [kind |-> "select_submit", pc |-> "write_api_key",
                           api_key |-> o.mgr.api_key, agent_id |-> agent_id])
                   /\ ret' = NoRet
    /\ UNCHANGED <<now, advances, nextTok, nextCode, pending_logins, pendingObj, auth_codes,
                   attempts, mgr>>
    /\ UNCHANGED tokenVars
    /\ UNCHANGED clientVars

ThreadFrame ==
    /\ UNCHANGED <<now, advances, nextTok, nextCode, pending_logins, pendingObj, auth_codes,
                   stored_key, attempts, reset_log>>
    /\ UNCHANGED tokenVars
    /\ UNCHANGED clientVars

\* `self.api_key = api_key`
WriteApiKey(s) ==
    /\ s \in DOMAIN requests
    /\ requests[s].kind = "select_submit" /\ requests[s].pc = "write_api_key"
    /\ mgr' = [mgr EXCEPT !.api_key = requests[s].api_key]
    /\ requests' = [requests EXCEPT ![s].pc = "write_agent_id"]
    /\ ret' = NoRet
    /\ ThreadFrame

\* `self.agent_id = agent_id`
WriteAgentId(s) ==
    /\ s \in DOMAIN requests
    /\ requests[s].kind = "select_submit" /\ requests[s].pc = "write_agent_id"
    /\ mgr' = [mgr EXCEPT !.agent_id = requests[s].agent_id]
    /\ requests' = [requests EXCEPT ![s].pc = "write_agent_name"]
    /\ ret' = NoRet
    /\ ThreadFrame

\* `self.agent_name = agent_name`, and the rest of the request:
\* select_agent returns, _handle_select_submit answers and sets the event
WriteAgentName(s) ==
    /\ s \in DOMAIN requests
    /\ requests[s].kind = "select_submit" /\ requests[s].pc = "write_agent_name"
    /\ mgr' = [mgr EXCEPT !.agent_name = AgentName(requests[s].agent_id),
                          !.auth_complete = TRUE]
    /\ requests' = Drop(requests, s)
    /\ ret' = Ret("select_submit", ServedBy(s), "success")
    /\ ThreadFrame

\* _get_current_agent_info on the tool thread, no OAuth token in the request
\* context: `if stdio_auth.is_authenticated:`
ReadAuthenticated ==
    /\ ToolSlot \notin DOMAIN requests
    /\ IF is_authenticated(mgr)
       THEN /\ requests' = Put(requests, ToolSlot,
                   [kind |-> "current_agent_info", pc |-> "read_agent_id",
                    api_key |-> mgr.api_key, agent_id |-> ""])
            /\ ret' = NoRet
       ELSE /\ ret' = Ret("current_agent_info", NoKey, None)
            /\ UNCHANGED requests
    /\ UNCHANGED mgr
    /\ ThreadFrame

\* `"agent_id": stdio_auth.agent_id`
ReadAgentId ==
    /\ ToolSlot \in DOMAIN requests
    /\ requests[ToolSlot].pc = "read_agent_id"
    /\ requests' = [requests EXCEPT ![ToolSlot].agent_id = mgr.agent_id,
                                    ![ToolSlot].pc = "read_agent_name"]
    /\ ret' = NoRet
    /\ UNCHANGED mgr
    /\ ThreadFrame

\* `"agent_name": stdio_auth.agent_name`, and the return; the result is
\* reported with the key that made the manager look authenticated
ReadAgentName ==
    /\ ToolSlot \in DOMAIN requests
    /\ requests[ToolSlot].pc = "read_agent_name"
    /\ ret' = Ret("current_agent_info", requests[ToolSlot].api_key,
                  [agent_id |-> requests[ToolSlot].agent_id, agent_name |-> mgr.agent_name])
    /\ requests' = Drop(requests, ToolSlot)
    /\ UNCHANGED mgr
    /\ ThreadFrame

ThreadNext ==
    \/ GetAuthUrlThreaded
    \/ \E x \in ThreadCallbackInputs : ServeCallback(x)
    \/ \E s \in Listeners : CallbackDone(s)
    \/ \E a \in Agents, creds \in BackendAnswers, reset \in ResetAnswers :
           ServeSelect(a, creds, reset)
    \/ \E s \in Listeners : WriteApiKey(s)
    \/ \E s \in Listeners : WriteAgentId(s)
    \/ \E s \in Listeners : WriteAgentName(s)
    \/ ReadAuthenticated
    \/ ReadAgentId
    \/ ReadAgentName

ThreadSpec == Init /\ [][ThreadNext]_vars

\* the agent a key was issued for
KeyOwner(api_key) == api_key[1]

\* _get_current_agent_info has just returned the identity of the manager
IdentityReported == ret'.op = "current_agent_info" /\ ret'.arg # NoKey

\* C39: whenever the tool thread observes the manager as authenticated, the
\* agent_id and agent_name it then reads belong to the agent whose key is in
\* api_key, under every interleaving with the listener thread: the pair
\* reported is the id and the name of the owner of the key seen when the
\* manager was found authenticated, or of the key held when the read ended.
C39_NoTornIdentity ==
    [][IdentityReported =>
          \E key \in {ret'.arg, mgr.api_key} :
              /\ key # NoKey
              /\ ret'.result.agent_id = KeyOwner(key)
              /\ ret'.result.agent_name = AgentName(KeyOwner(key))]_vars

\* jwt, agents, api_key, the recorded error and the completion signal
SessionFields(m) == <<m.jwt, m.agents, m.api_key, m.error, m.auth_complete>>

\* the request in flight on the listener that get_auth_url shut down has just
\* executed a statement
PreviousListenerStepped ==
    /\ PreviousSlot \in DOMAIN requests
    /\ (PreviousSlot \in DOMAIN requests' => requests'[PreviousSlot] # requests[PreviousSlot])

\* C40: after get_auth_url returns, only requests served by the new listener
\* can change jwt, agents, api_key, the error or the completion signal: a
\* request in flight on the previous listener sets none of them afterwards,
\* and at most one listener serves at any time.
C40_OldListenerSilenced ==
    [][/\ PreviousListenerStepped => SessionFields(mgr') = SessionFields(mgr)
       /\ ~(ListenerSlot \in DOMAIN requests' /\ PreviousSlot \in DOMAIN requests')]_vars

====
